---- MODULE Spec2Model ----
\* Tree-walk algebra of common/treenode (TreeNode, TreeNodeRecursion,
\* Transformed, TreeNodeIterator and the two blanket TreeNode implementations).
\*
\* A traversal is a recursive function of the tree and of the callbacks; the
\* callbacks' side effects (the visit log of the test visitor, the calls of the
\* replace-children operation) are threaded through every operator as the
\* record st = [visits, maps, found, plans].  `?` on a Result is an IF on its err
\* field; the code after a `?` that uses the value several times is an operator
\* of its own, taking the value as its parameter.  A closure that recurses into
\* a traversal is passed as its name and applied by ApplyClosure / MapClosure.
EXTENDS Integers, Sequences, FiniteSets, TLC

VARIABLES
    mode,      \* which traversal is run on the tree
    impl,      \* which TreeNode implementation the tree node type has
    tree,      \* the input tree
    f_down,    \* behaviour of the f_down callback, per node id
    f_up,      \* behaviour of the f_up callback, per node id
    failing,   \* node ids on which the replace-children operation returns Err
    pred,      \* node ids for which the predicate given to exists is true
    pc,        \* "start" before the traversal, "done" after it
               \* ("again", "called": after a step that may be followed by another)
    visits,    \* the log of callback invocations, in order
    maps,      \* the log of completed child mappings of map_children
    result,    \* what the traversal returned
    comb,      \* last application of a single Transformed combinator
    join_keys  \* the JoinKeySet the join-key operations are called on

vars == <<mode, impl, tree, f_down, f_up, failing, pred, pc, visits, maps, result, comb,
          join_keys>>

\* ---------------------------------------------------------------------------
\* Bounds
\* ---------------------------------------------------------------------------
MaxNodes == 4      \* generated trees have at most this many nodes
MaxSpecial == 1    \* at most this many callbacks / rebuilds deviate from the default
MaxPairs == 3      \* the macro is given at most this many (fallback, rewrite) pairs
MaxKeys == 2       \* at most this many join keys in an argument of a JoinKeySet call

\* ---------------------------------------------------------------------------
\* TreeNodeRecursion, Transformed, results
\* ---------------------------------------------------------------------------
TreeNodeRecursion == {"Continue", "Jump", "Stop"}

\* Result<TreeNodeRecursion> together with the threaded side-effect state.
OkTnr(tnr, st) == [err |-> FALSE, tnr |-> tnr, st |-> st]

\* Err(e) of any Result, together with the threaded side-effect state.
Err(e, st) == [err |-> TRUE, error |-> e, st |-> st]

\* Transformed::new, as an Ok result with the threaded side-effect state.
new(data, transformed, tnr, st) ==
    [err |-> FALSE, data |-> data, transformed |-> transformed, tnr |-> tnr, st |-> st]

yes(data, st) == new(data, TRUE, "Continue", st)

\* Mutant: the unchanged wrapper sets the flag.
no_reports_change(data, st) == new(data, TRUE, "Continue", st)

no(data, st) == new(data, FALSE, "Continue", st)

\* ---------------------------------------------------------------------------
\* Trees
\* ---------------------------------------------------------------------------
\* TestTreeNode::new
TestTreeNode(children, data) == [children |-> children, data |-> data]

\* The payload of a node: its name and the rewrites applied to it so far
\* ("f_up(f_down(a))" is [id |-> "a", tags |-> <<"f_down", "f_up">>]).
Data(id) == [id |-> id, tags |-> <<>>]

test_tree ==
    LET node_a == TestTreeNode(<<>>, Data("a"))
        node_b == TestTreeNode(<<>>, Data("b"))
        node_d == TestTreeNode(<<node_a>>, Data("d"))
        node_c == TestTreeNode(<<node_b, node_d>>, Data("c"))
        node_e == TestTreeNode(<<node_c>>, Data("e"))
        node_h == TestTreeNode(<<>>, Data("h"))
        node_g == TestTreeNode(<<node_h>>, Data("g"))
        node_f == TestTreeNode(<<node_e, node_g>>, Data("f"))
        node_i == TestTreeNode(<<node_f>>, Data("i"))
    IN TestTreeNode(<<node_i>>, Data("j"))

\* format!("{}({})", transformation_name, node.data): the callback's rewrite.
Mark(node, name) == [node EXCEPT !.data.tags = Append(@, name)]

\* Every ordered forest with k nodes, as nested sequences of child forests.
RECURSIVE Forests(_)
Forests(k) ==
    IF k = 0 THEN {<<>>}
    ELSE UNION { { <<t>> \o rest : t \in Forests(j - 1), rest \in Forests(k - j) } : j \in 1..k }

RECURSIVE ShapeSize(_)
ShapeSize(shape) ==
    IF shape = <<>> THEN 1
    ELSE ShapeSize(Head(shape)) + ShapeSize(Tail(shape))

NodeNames == <<"n1", "n2", "n3", "n4", "n5", "n6", "n7", "n8">>

\* Names the nodes of a shape in pre-order, starting with NodeNames[start].
RECURSIVE LabelForest(_, _)
LabelForest(forest, start) ==
    IF forest = <<>> THEN <<>>
    ELSE <<TestTreeNode(LabelForest(Head(forest), start + 1), Data(NodeNames[start]))>>
         \o LabelForest(Tail(forest), start + ShapeSize(Head(forest)))

SmallTrees ==
    { LabelForest(<<shape>>, 1)[1] : shape \in UNION { Forests(n - 1) : n \in 1..MaxNodes } }

RECURSIVE Ids(_)
Ids(node) ==
    {node.data.id} \cup UNION { Ids(node.children[i]) : i \in 1..Len(node.children) }

\* ---------------------------------------------------------------------------
\* TreeNodeRecursion combinators
\* ---------------------------------------------------------------------------
\* `self` is the signal, `fres` the result the closure f returns if it is called.

\* Mutant: Jump descends into the children like Continue.
visit_children_descends_on_jump(self, fres, st) ==
    CASE self \in {"Continue", "Jump"} -> fres
      [] self = "Stop" -> OkTnr(self, st)

visit_children(self, fres, st) ==
    CASE self = "Continue" -> fres
      [] self = "Jump" -> OkTnr("Continue", st)
      [] self = "Stop" -> OkTnr(self, st)

visit_sibling(self, fres, st) ==
    CASE self \in {"Continue", "Jump"} -> fres
      [] self = "Stop" -> OkTnr(self, st)

\* Mutant: Jump does not skip the parent.
visit_parent_ignores_jump(self, fres, st) ==
    CASE self \in {"Continue", "Jump"} -> fres
      [] self = "Stop" -> OkTnr(self, st)

visit_parent(self, fres, st) ==
    CASE self = "Continue" -> fres
      [] self \in {"Jump", "Stop"} -> OkTnr(self, st)

\* ---------------------------------------------------------------------------
\* Callbacks of the inspecting traversals
\* ---------------------------------------------------------------------------
Event(ev, node) == [ev |-> ev, id |-> node.data.id]

Log(st, ev, node) == [st EXCEPT !.visits = Append(@, Event(ev, node))]

\* TestVisitor::f_down / f_up and the closure of test_apply: push the visit,
\* then return what the configured callback returns.
VisitorCall(ev, cfg, node, st) ==
    LET o == cfg[node.data.id]
        st1 == Log(st, ev, node)
    IN IF o.err THEN Err(Event(ev, node), st1) ELSE OkTnr(o.tnr, st1)

\* Mutant: the closure records the match but lets the walk continue.
ExistsClosure_keeps_going(node, st) ==
    LET st1 == Log(st, "pred", node)
    IN IF node.data.id \in pred
       THEN OkTnr("Continue", [st1 EXCEPT !.found = TRUE])
       ELSE OkTnr("Continue", st1)

\* The closure exists() passes to apply().
ExistsClosure(node, st) ==
    LET st1 == Log(st, "pred", node)
    IN IF node.data.id \in pred
       THEN OkTnr("Stop", [st1 EXCEPT !.found = TRUE])
       ELSE OkTnr("Continue", st1)

\* ---------------------------------------------------------------------------
\* Inspecting traversals
\* ---------------------------------------------------------------------------
\* The closures given to apply_children: |c| c.visit(visitor) is "visit",
\* |c| apply_impl(c, f) is "apply" for the f of a test and "exists" for the f of
\* exists.  ApplyClosure, defined after the traversals, applies the one named k.
RECURSIVE ApplyClosure(_, _, _)

\* The for loop of apply_until_stop: after[i] is the result once i items are
\* done, an Err or a Stop of an earlier item having returned from the loop.
apply_until_stop(items, k, st) ==
    LET after[i \in 0..Len(items)] ==
            IF i = 0 THEN OkTnr("Continue", st)
            ELSE LET before == after[i - 1]
                 IN IF before.err \/ before.tnr = "Stop" THEN before
                    ELSE ApplyClosure(k, items[i], before.st)
    IN after[Len(items)]

\* Both blanket implementations: children iterated with apply_until_stop.
apply_children(node, k, st) == apply_until_stop(node.children, k, st)

\* The rest of visit once f_down has returned d.
visit_after_f_down(node, d) ==
    IF d.err THEN d
    ELSE visit_children(d.tnr, apply_children(node, "visit", d.st), d.st)

\* The rest of visit once the children are done with c.
visit_after_children(node, c) ==
    IF c.err THEN c
    ELSE visit_parent(c.tnr, VisitorCall("f_up", f_up, node, c.st), c.st)

\* Mutant: f_up is called before the children are visited.
visit_f_up_first(node, st) ==
    visit_after_f_down(node,
        visit_after_children(node, VisitorCall("f_down", f_down, node, st)))

visit(node, st) ==
    visit_after_children(node,
        visit_after_f_down(node, VisitorCall("f_down", f_down, node, st)))

\* Mutant: a Jump of f is handed to the caller as it is.
apply_after_f_keeps_jump(node, f, d) ==
    IF d.err THEN d
    ELSE IF d.tnr = "Jump" THEN OkTnr("Jump", d.st)
    ELSE visit_children(d.tnr, apply_children(node, f, d.st), d.st)

\* The rest of apply_impl once f has returned d.
apply_after_f(node, f, d) ==
    IF d.err THEN d
    ELSE visit_children(d.tnr, apply_children(node, f, d.st), d.st)

\* f names the closure: "apply" or "exists".
apply_impl(node, f, st) ==
    apply_after_f(node, f, IF f = "exists" THEN ExistsClosure(node, st)
                           ELSE VisitorCall("f_down", f_down, node, st))

apply(node, f, st) == apply_impl(node, f, st)

ApplyClosure(k, c, st) ==
    CASE k = "visit" -> visit(c, st)
      [] k \in {"apply", "exists"} -> apply_impl(c, k, st)

exists(node, st) ==
    LET r == apply(node, "exists", [st EXCEPT !.found = FALSE])
    IN [found |-> r.st.found, st |-> r.st]

\* ---------------------------------------------------------------------------
\* Transformed combinators
\* ---------------------------------------------------------------------------
\* `self` is a Transformed (an Ok result); `fres` is what the closure f returns
\* when it is applied to self.data.
update_data(self, fdata) == new(fdata, self.transformed, self.tnr, self.st)

\* f returns Result<U>: [err, value, st].
map_data(self, fres) ==
    IF fres.err THEN fres
    ELSE new(fres.value, self.transformed, self.tnr, fres.st)

or(self, other) == IF self.transformed THEN self ELSE other

map_yes_no(self, yes_data, no_data) ==
    IF self.transformed THEN yes(yes_data, self.st) ELSE no(no_data, self.st)

transform_data(self, fres) ==
    IF fres.err THEN fres
    ELSE [fres EXCEPT !.transformed = @ \/ self.transformed]

\* Mutant: the flag of self is not OR-ed into the children's result.
transform_children_drops_flag(self, fres) ==
    CASE self.tnr = "Continue" -> fres
      [] self.tnr = "Jump" -> [self EXCEPT !.tnr = "Continue"]
      [] self.tnr = "Stop" -> self

\* Mutant: an error of the children's rewrite is swallowed and self is kept.
transform_children_swallows_error(self, fres) ==
    CASE self.tnr = "Continue" ->
            IF fres.err THEN [self EXCEPT !.st = fres.st]
            ELSE [fres EXCEPT !.transformed = @ \/ self.transformed]
      [] self.tnr = "Jump" -> [self EXCEPT !.tnr = "Continue"]
      [] self.tnr = "Stop" -> self

transform_children(self, fres) ==
    CASE self.tnr = "Continue" ->
            IF fres.err THEN fres
            ELSE [fres EXCEPT !.transformed = @ \/ self.transformed]
      [] self.tnr = "Jump" -> [self EXCEPT !.tnr = "Continue"]
      [] self.tnr = "Stop" -> self

transform_sibling(self, fres) ==
    CASE self.tnr \in {"Continue", "Jump"} ->
            IF fres.err THEN fres
            ELSE [fres EXCEPT !.transformed = @ \/ self.transformed]
      [] self.tnr = "Stop" -> self

\* Mutant: only Jump skips the parent, Stop does not.
transform_parent_ignores_stop(self, fres) ==
    CASE self.tnr \in {"Continue", "Stop"} ->
            IF fres.err THEN fres
            ELSE [fres EXCEPT !.transformed = @ \/ self.transformed]
      [] self.tnr = "Jump" -> self

\* Mutant: Jump is treated as Continue, the parent's closure is called.
transform_parent_continues_on_jump(self, fres) ==
    CASE self.tnr \in {"Continue", "Jump"} ->
            IF fres.err THEN fres
            ELSE [fres EXCEPT !.transformed = @ \/ self.transformed]
      [] self.tnr = "Stop" -> self

transform_parent(self, fres) ==
    CASE self.tnr = "Continue" ->
            IF fres.err THEN fres
            ELSE [fres EXCEPT !.transformed = @ \/ self.transformed]
      [] self.tnr \in {"Jump", "Stop"} -> self

\* ---------------------------------------------------------------------------
\* Callbacks and operations of the rewriting traversals
\* ---------------------------------------------------------------------------
\* transform_yes / transform_and_event_on, generalised: a callback that reports
\* a change rewrites the node's data, one that reports none returns the node
\* as it got it; either way it returns the configured signal, or it fails.
TransformCall(ev, cfg, node, st) ==
    LET o == cfg[node.data.id]
        st1 == Log(st, ev, node)
    IN IF o.err THEN Err(Event(ev, node), st1)
       ELSE new(IF o.transformed THEN Mark(node, ev) ELSE node, o.transformed, o.tnr, st1)

\* TreeNodeRewriter::f_down: the test rewriter's, or the trait's default.
RewriterFDown(rw, node, st) ==
    IF rw = "default" THEN no(node, st) ELSE TransformCall("f_down", f_down, node, st)

\* TreeNodeRewriter::f_up: the test rewriter's, or the trait's default.
RewriterFUp(rw, node, st) ==
    IF rw = "default" THEN no(node, st) ELSE TransformCall("f_up", f_up, node, st)

\* A node of a logical plan, as opposed to a node of the test tree.
IsPlan(node) == "op" \in DOMAIN node.data

\* What the logs call a node: the test node's id, the plan node's operator.
NodeId(node) == IF IsPlan(node) THEN node.data.op ELSE node.data.id

\* map_children finished mapping the children of node; `rebuilt` tells whether
\* it goes on to call the replace-children operation.
MapLog(st, node, rebuilt) ==
    [st EXCEPT !.maps = Append(@, [id |-> NodeId(node), rebuilt |-> rebuilt,
                                    at |-> Len(st.visits)])]

\* DynTreeNode::with_new_arc_children / ConcreteTreeNode::with_new_children of
\* the node type: builds the node from its payload and the new children, or
\* fails; that of a logical plan never fails.
with_new_children(node, new_children, st) ==
    LET st1 == MapLog(st, node, TRUE)
    IN IF ~IsPlan(node) /\ node.data.id \in failing
       THEN Err([ev |-> "rebuild", id |-> node.data.id], st1)
       ELSE [err |-> FALSE, value |-> [node EXCEPT !.children = new_children], st |-> st1]

\* ConcreteTreeNode::take_children
take_children(node) == <<[node EXCEPT !.children = <<>>], node.children>>

\* ---------------------------------------------------------------------------
\* Rewriting traversals
\* ---------------------------------------------------------------------------
\* The closures given to map_children, named by the traversal that recurses:
\* "rewrite" (|n| n.rewrite(rewriter)), "rewrite_default" (the same with a
\* rewriter that keeps the default f_down and f_up), "transform_down",
\* "transform_up" and "transform_down_up" (|c| .._impl(c, f)).  MapClosure,
\* defined after the traversals, applies the one named k.
RECURSIVE MapClosure(_, _, _)

\* Mutant: an item after a Stop is collected as changed.
Unmapped_marks_changed(item, tnr, st) == new(item, TRUE, tnr, st)

\* The Stop arm of the closure of map_until_stop_and_collect: the item is
\* collected as it is, tnr and transformed stay what they are.
Unmapped(item, tnr, st) == new(item, FALSE, tnr, st)

\* Mutant: an item after a Jump is collected as it is, like one after a Stop.
MapItem_stops_on_jump(tnr, item, k, st) ==
    CASE tnr = "Continue" -> MapClosure(k, item, st)
      [] tnr \in {"Jump", "Stop"} -> Unmapped(item, tnr, st)

\* The closure of map_until_stop_and_collect on one item, tnr being the signal
\* of the items before it.
MapItem(tnr, item, k, st) ==
    CASE tnr \in {"Continue", "Jump"} -> MapClosure(k, item, st)
      [] tnr = "Stop" -> Unmapped(item, tnr, st)

\* The captured tnr and transformed and the collected data after one more
\* item, whose closure returned r.
Collect(before, r) ==
    IF r.err THEN r
    ELSE new(Append(before.data, r.data), before.transformed \/ r.transformed, r.tnr, r.st)

\* map(..).collect::<Result<Vec<_>>>(): after[i] is the state once i items are
\* collected, an Err of an earlier item having ended the collection.
map_until_stop_and_collect(items, k, st) ==
    LET after[i \in 0..Len(items)] ==
            IF i = 0 THEN new(<<>>, FALSE, "Continue", st)
            ELSE LET before == after[i - 1]
                 IN IF before.err THEN before
                    ELSE Collect(before, MapItem(before.tnr, items[i], k, before.st))
    IN after[Len(items)]

\* Mutant: the node is rebuilt whether or not a child changed.
arc_with_new_children_always(node, new_children) ==
    IF new_children.err THEN new_children
    ELSE map_data(new_children,
             with_new_children(node, new_children.data, new_children.st))

\* impl TreeNode for Arc<T: DynTreeNode>, map_children once the children are
\* mapped: the `?` and the test of new_children.transformed.
arc_with_new_children(node, new_children) ==
    IF new_children.err THEN new_children
    ELSE IF new_children.transformed
         THEN map_data(new_children,
                  with_new_children(node, new_children.data, new_children.st))
         ELSE new(node, FALSE, new_children.tnr, MapLog(new_children.st, node, FALSE))

\* impl TreeNode for Arc<T: DynTreeNode>
map_children_arc(node, k, st) ==
    LET children == node.children
    IN IF children = <<>> THEN no(node, MapLog(st, node, FALSE))
       ELSE arc_with_new_children(node, map_until_stop_and_collect(children, k, st))

\* impl TreeNode for T: ConcreteTreeNode, map_children once the children are
\* mapped: the `?` and the reattachment.
concrete_with_new_children(new_self, new_children) ==
    IF new_children.err THEN new_children
    ELSE map_data(new_children,
             with_new_children(new_self, new_children.data, new_children.st))

\* impl TreeNode for T: ConcreteTreeNode
map_children_concrete(node, k, st) ==
    LET new_self == take_children(node)[1]
        children == take_children(node)[2]
    IN IF children = <<>> THEN no(new_self, MapLog(st, node, FALSE))
       ELSE concrete_with_new_children(new_self, map_until_stop_and_collect(children, k, st))

map_children(node, k, st) ==
    IF impl = "Arc" THEN map_children_arc(node, k, st)
    ELSE map_children_concrete(node, k, st)

\* Mutant: the flag of the children's result is not OR-ed into what f_up
\* returns.
then_transform_parent_drops_flag(c, up) ==
    IF c.err THEN c
    ELSE IF c.tnr # "Continue" THEN c
    ELSE IF up = "closure" THEN TransformCall("f_up", f_up, c.data, c.st)
    ELSE RewriterFUp(up, c.data, c.st)

\* `?` on the result of transform_children, then transform_parent with the
\* f_up closure or the f_up of the rewriter `up`.
then_transform_parent(c, up) ==
    IF c.err THEN c
    ELSE transform_parent(c,
             IF up = "closure" THEN TransformCall("f_up", f_up, c.data, c.st)
             ELSE RewriterFUp(up, c.data, c.st))

\* The macro: $F_DOWN?.transform_children(|n| n.map_children($F_CHILD))?
\* .transform_parent($F_UP); `down` is the value of $F_DOWN, F_CHILD names
\* $F_CHILD and `up` names $F_UP.
handle_transform_recursion(down, F_CHILD, up) ==
    IF down.err THEN down
    ELSE then_transform_parent(
             transform_children(down, map_children(down.data, F_CHILD, down.st)), up)

rewrite(node, rw, st) ==
    handle_transform_recursion(RewriterFDown(rw, node, st),
                               IF rw = "default" THEN "rewrite_default" ELSE "rewrite", rw)

\* The closure f of transform_down.
TransformDownClosure(k, node, st) == TransformCall("f_down", f_down, node, st)

\* f(node)?.transform_children(..), d being what f returned.
transform_down_children(d, k) ==
    IF d.err THEN d
    ELSE transform_children(d, map_children(d.data, k, d.st))

transform_down_impl(node, k, st) ==
    transform_down_children(TransformDownClosure(k, node, st), k)

transform_down(node, st) == transform_down_impl(node, "transform_down", st)

transform_up_impl(node, st) ==
    then_transform_parent(map_children(node, "transform_up", st), "closure")

transform_up(node, st) == transform_up_impl(node, st)

transform_down_up_impl(node, st) ==
    handle_transform_recursion(TransformCall("f_down", f_down, node, st),
                               "transform_down_up", "closure")

transform_down_up(node, st) == transform_down_up_impl(node, st)

MapClosure(k, c, st) ==
    CASE k = "rewrite" -> rewrite(c, "test", st)
      [] k = "rewrite_default" -> rewrite(c, "default", st)
      [] k = "transform_down" -> transform_down_impl(c, k, st)
      [] k = "transform_up" -> transform_up_impl(c, st)
      [] k = "transform_down_up" -> transform_down_up_impl(c, st)

\* ---------------------------------------------------------------------------
\* The macro map_until_stop_and_collect!
\* ---------------------------------------------------------------------------
\* $F of the i-th pair is evaluated: the evaluation is logged, and it returns
\* what the pair is configured to return, an Err or a Transformed.
EvalF(i, pair, st) ==
    LET st1 == [st EXCEPT !.visits = Append(@, [ev |-> "F", id |-> i])]
    IN IF pair.f.err THEN Err([ev |-> "F", id |-> i], st1)
       ELSE new(<<"rewritten", i>>, pair.f.transformed, pair.f.tnr, st1)

\* Mutant: $F is evaluated whatever the running signal is.
macro_element_always_rewrites(acc, i, pair) ==
    LET r == EvalF(i, pair, acc.st)
    IN IF r.err THEN r
       ELSE new(Append(acc.data, r.data), acc.transformed \/ r.transformed, r.tnr, r.st)

\* One element of the tuple all_datas: $F's data, with tnr and transformed
\* updated, or $EXPR; the `?` returns an Err of $F from the closure.
macro_element(acc, i, pair) ==
    IF acc.tnr \in {"Continue", "Jump"}
    THEN LET r == EvalF(i, pair, acc.st)
         IN IF r.err THEN r
            ELSE new(Append(acc.data, r.data), acc.transformed \/ r.transformed, r.tnr, r.st)
    ELSE new(Append(acc.data, pair.expr), acc.transformed, acc.tnr, acc.st)

\* $F0.and_then(..): F0 is the value of $F0, pairs the ($EXPR, $F) pairs.
map_until_stop_and_collect_macro(F0, pairs) ==
    LET after[i \in 0..Len(pairs)] ==
            IF i = 0 THEN (IF F0.err THEN F0
                           ELSE new(<<F0.data>>, F0.transformed, F0.tnr, F0.st))
            ELSE LET before == after[i - 1]
                 IN IF before.err THEN before
                    ELSE macro_element(before, i, pairs[i])
    IN after[Len(pairs)]

\* ---------------------------------------------------------------------------
\* Expressions of a logical plan
\* ---------------------------------------------------------------------------
\* Expr::Column(Column::Resolved(ResolvedColumn::Basic(name)))
resolved_col(name) == [k |-> "Column", name |-> name]

\* Expr::Literal
lit == [k |-> "Literal"]

\* Expr::Alias(inner, name)
alias(e, name) == [k |-> "Alias", child |-> e, name |-> name]

\* A function-shaped expression (a binary operator, an aggregation, a UDF call).
Function(func, inputs) == [k |-> "Function", func |-> func, inputs |-> inputs]

add(l, r) == Function("add", <<l, r>>)

mean(e) == Function("mean", <<e>>)

\* tests::create_actor_pool_udf
create_actor_pool_udf(inputs) == Function("my-udf", inputs)

\* is_udf: the expression node is a UDF call.
is_udf(e) == e.k = "Function" /\ e.func = "my-udf"

\* Expr::children
ExprChildren(e) ==
    CASE e.k = "Alias" -> <<e.child>>
      [] e.k = "Function" -> e.inputs
      [] OTHER -> <<>>

\* Expr::name: the output column name.
RECURSIVE ExprName(_)
ExprName(e) ==
    CASE e.k = "Column" -> e.name
      [] e.k = "Alias" -> e.name
      [] e.k = "Function" -> IF e.inputs = <<>> THEN e.func ELSE ExprName(e.inputs[1])
      [] e.k = "Literal" -> "literal"

\* Concatenation of a sequence of sequences.
RECURSIVE Flatten(_)
Flatten(seqs) == IF seqs = <<>> THEN <<>> ELSE Head(seqs) \o Flatten(Tail(seqs))

\* The elements of a sequence, as a set.
Range(seq) == { seq[i] : i \in 1..Len(seq) }

\* get_required_columns: every column reference of the expression, in
\* pre-order, a column referenced twice occurring twice.
RECURSIVE get_required_columns(_)
get_required_columns(e) ==
    IF e.k = "Column" THEN <<e.name>>
    ELSE Flatten([i \in 1..Len(ExprChildren(e)) |-> get_required_columns(ExprChildren(e)[i])])

\* requires_computation: anything but a column reference, a literal or an
\* alias of one.
RECURSIVE requires_computation(_)
requires_computation(e) ==
    CASE e.k = "Alias" -> requires_computation(e.child)
      [] e.k \in {"Column", "Literal"} -> FALSE
      [] OTHER -> TRUE

\* No value.
None == [some |-> FALSE]

Some(v) == [some |-> TRUE, value |-> v]

\* Expr::input_mapping: the one input column the expression passes through
\* without computation, None when it computes.
input_mapping(e) ==
    IF Len(get_required_columns(e)) = 1 /\ ~requires_computation(e)
    THEN Some(get_required_columns(e)[1])
    ELSE None

\* Expr::exists(is_udf)
RECURSIVE exists_is_udf(_)
exists_is_udf(e) ==
    is_udf(e) \/ \E i \in 1..Len(ExprChildren(e)) : exists_is_udf(ExprChildren(e)[i])

\* replace_columns_with_expressions: every column reference whose name is a
\* key of replace_map becomes the expression mapped to it.
RECURSIVE replace_columns_with_expressions(_, _)
replace_columns_with_expressions(e, replace_map) ==
    CASE e.k = "Column" ->
            IF e.name \in DOMAIN replace_map THEN replace_map[e.name] ELSE e
      [] e.k = "Alias" ->
            [e EXCEPT !.child = replace_columns_with_expressions(@, replace_map)]
      [] e.k = "Function" ->
            [e EXCEPT !.inputs = [i \in 1..Len(@) |->
                                     replace_columns_with_expressions(@[i], replace_map)]]
      [] OTHER -> e

\* An ordered set (IndexSet) as a sequence without repetitions: seq with every
\* element kept at its first occurrence only.
RECURSIVE IndexSet(_)
IndexSet(seq) ==
    IF seq = <<>> THEN <<>>
    ELSE LET init == IndexSet(SubSeq(seq, 1, Len(seq) - 1))
             last == seq[Len(seq)]
         IN IF last \in Range(init) THEN init ELSE Append(init, last)

\* The names of a list of expressions.
Names(exprs) == [i \in 1..Len(exprs) |-> ExprName(exprs[i])]

\* The columns a list of expressions requires, in order of first reference.
RequiredOf(exprs) ==
    IndexSet(Flatten([i \in 1..Len(exprs) |-> get_required_columns(exprs[i])]))

\* ---------------------------------------------------------------------------
\* Logical plans
\* ---------------------------------------------------------------------------
\* A plan node: the operator's own fields and its inputs, in order.
LogicalPlan(data, children) == [children |-> children, data |-> data]

\* Pushdowns::default()
DefaultPushdowns ==
    [columns |-> None, filters |-> None, partition_filters |-> None,
     limit |-> None, sharder |-> None]

\* Pushdowns::with_columns
with_columns(pushdowns, columns) == [pushdowns EXCEPT !.columns = columns]

\* Source::new; source_info is "Physical", "InMemory" or "PlaceHolder", the
\* pushdowns are those of the physical scan.
Source(schema, source_info, pushdowns) ==
    LogicalPlan([op |-> "Source", schema |-> schema, source_info |-> source_info,
                 pushdowns |-> pushdowns], <<>>)

\* tests::dummy_scan_node
dummy_scan_node(schema) == Source(schema, "Physical", DefaultPushdowns)

Project(input, projection) ==
    LogicalPlan([op |-> "Project", projection |-> projection], <<input>>)

UDFProject(input, project, passthrough_columns) ==
    LogicalPlan([op |-> "UDFProject", project |-> project,
                 passthrough_columns |-> passthrough_columns], <<input>>)

Aggregate(input, aggregations, groupby) ==
    LogicalPlan([op |-> "Aggregate", aggregations |-> aggregations, groupby |-> groupby],
                <<input>>)

\* The operators with one input and the input's schema: Filter(predicate),
\* Sort(sort_by), TopN(sort_by), Explode(to_explode), Repartition(by), whose
\* expressions are exprs, and Limit, Sample, Shard, which have none.
PassThroughOps ==
    {"Sort", "Shard", "Repartition", "Limit", "TopN", "Filter", "Sample", "Explode"}

PassThrough(op, input, exprs) == LogicalPlan([op |-> op, exprs |-> exprs], <<input>>)

Unpivot(input, ids, values, variable_name, value_name) ==
    LogicalPlan([op |-> "Unpivot", ids |-> ids, values |-> values,
                 variable_name |-> variable_name, value_name |-> value_name], <<input>>)

Concat(input, other) == LogicalPlan([op |-> "Concat"], <<input, other>>)

JoinTypes == {"Inner", "Left", "Right", "Outer", "Semi", "Anti"}

Join(left, right, left_on, right_on, join_type) ==
    LogicalPlan([op |-> "Join", left_on |-> left_on, right_on |-> right_on,
                 join_type |-> join_type], <<left, right>>)

\* columns is None (distinct on all columns) or Some(expressions).
Distinct(input, columns) == LogicalPlan([op |-> "Distinct", columns |-> columns], <<input>>)

Intersect(lhs, rhs) == LogicalPlan([op |-> "Intersect"], <<lhs, rhs>>)

Pivot(input, group_by, pivot_column, value_column, names) ==
    LogicalPlan([op |-> "Pivot", group_by |-> group_by, pivot_column |-> pivot_column,
                 value_column |-> value_column, names |-> names], <<input>>)

MonotonicallyIncreasingId(input, column_name) ==
    LogicalPlan([op |-> "MonotonicallyIncreasingId", column_name |-> column_name], <<input>>)

Window(input, window_functions, partition_by) ==
    LogicalPlan([op |-> "Window", window_functions |-> window_functions,
                 partition_by |-> partition_by], <<input>>)

Sink(input) == LogicalPlan([op |-> "Sink"], <<input>>)

Union(input, other) == LogicalPlan([op |-> "Union"], <<input, other>>)

SubqueryAlias(input, name) == LogicalPlan([op |-> "SubqueryAlias", name |-> name], <<input>>)

\* The elements of seq that are in the set keep, in the order of seq.
RECURSIVE Restrict(_, _)
Restrict(seq, keep) ==
    IF seq = <<>> THEN <<>>
    ELSE IF Head(seq) \in keep THEN <<Head(seq)>> \o Restrict(Tail(seq), keep)
    ELSE Restrict(Tail(seq), keep)

\* LogicalPlan::schema: the ordered names of the output columns.
RECURSIVE schema(_)
schema(plan) ==
    LET d == plan.data
        in1 == plan.children[1]
    IN CASE d.op = "Source" -> d.schema
         [] d.op = "Project" -> Names(d.projection)
         [] d.op = "UDFProject" -> Names(d.passthrough_columns) \o <<ExprName(d.project)>>
         [] d.op = "Aggregate" -> Names(d.groupby) \o Names(d.aggregations)
         [] d.op = "Unpivot" -> Names(d.ids) \o <<d.variable_name, d.value_name>>
         [] d.op = "Join" ->
               IF d.join_type \in {"Semi", "Anti"} THEN schema(in1)
               ELSE schema(in1)
                    \o Restrict(schema(plan.children[2]),
                                Range(schema(plan.children[2])) \ Range(schema(in1)))
         [] d.op = "Pivot" -> Names(d.group_by) \o d.names
         [] d.op = "MonotonicallyIncreasingId" -> <<d.column_name>> \o schema(in1)
         [] d.op = "Window" -> schema(in1) \o Names(d.window_functions)
         [] OTHER -> schema(in1)

\* LogicalPlan::required_columns: for each input, the columns the operator
\* needs from it, as an ordered set.
required_columns(plan) ==
    LET d == plan.data
    IN CASE d.op = "Source" -> <<>>
         [] d.op = "Project" -> <<RequiredOf(d.projection)>>
         [] d.op = "UDFProject" -> <<RequiredOf(d.passthrough_columns \o <<d.project>>)>>
         [] d.op = "Aggregate" -> <<RequiredOf(d.aggregations \o d.groupby)>>
         [] d.op \in PassThroughOps -> <<RequiredOf(d.exprs)>>
         [] d.op = "Unpivot" -> <<RequiredOf(d.ids \o d.values)>>
         [] d.op = "Concat" -> <<<<>>, <<>>>>
         [] d.op = "Join" -> <<RequiredOf(d.left_on), RequiredOf(d.right_on)>>
         [] d.op = "Distinct" ->
               IF d.columns.some THEN <<RequiredOf(d.columns.value)>>
               ELSE <<schema(plan.children[1])>>
         [] d.op = "Intersect" -> <<schema(plan.children[1]), schema(plan.children[2])>>
         [] d.op = "Pivot" ->
               <<RequiredOf(d.group_by \o <<d.pivot_column, d.value_column>>)>>
         [] d.op = "Window" -> <<RequiredOf(d.window_functions \o d.partition_by)>>
         [] d.op = "Union" -> <<<<>>, <<>>>>
         [] OTHER -> <<<<>>>>

\* LogicalPlan::with_new_children: the operator with its own fields and the
\* given inputs.
plan_with_new_children(plan, new_children) == [plan EXCEPT !.children = new_children]

\* A Result<LogicalPlan>.
OkPlan(plan) == [err |-> FALSE, value |-> plan]

ErrPlan(error) == [err |-> TRUE, error |-> error]

\* Project::try_new: fails when an expression refers to a column the input
\* does not have.
Project_try_new(input, projection) ==
    IF Range(RequiredOf(projection)) \subseteq Range(schema(input))
    THEN OkPlan(Project(input, projection))
    ELSE ErrPlan([ev |-> "SchemaMismatch", op |-> "Project"])

\* Aggregate::try_new
Aggregate_try_new(input, aggregations, groupby) ==
    IF Range(RequiredOf(aggregations \o groupby)) \subseteq Range(schema(input))
    THEN OkPlan(Aggregate(input, aggregations, groupby))
    ELSE ErrPlan([ev |-> "SchemaMismatch", op |-> "Aggregate"])

\* UDFProject::try_new
UDFProject_try_new(input, project, passthrough_columns) ==
    IF Range(RequiredOf(passthrough_columns \o <<project>>)) \subseteq Range(schema(input))
    THEN OkPlan(UDFProject(input, project, passthrough_columns))
    ELSE ErrPlan([ev |-> "SchemaMismatch", op |-> "UDFProject"])

\* ---------------------------------------------------------------------------
\* The projection push-down rule
\* ---------------------------------------------------------------------------
\* PushDownProjection::try_optimize_node, the closure the rule gives to
\* transform_down; defined at the end of this section.
RECURSIVE try_optimize_node(_, _)

\* A panic!() or unreachable!() of the rule: it unwinds through every caller,
\* as an Err does through every `?`.
Panic(message, st) == Err([ev |-> "panic", message |-> message], st)

\* try_optimize_node was entered on plan: the entry is logged by operator, and
\* the plan is kept for the properties that compare the plans entered.
PlanLog(st, plan) ==
    [st EXCEPT !.visits = Append(@, [ev |-> "try_optimize_node", id |-> plan.data.op]),
               !.plans = Append(@, plan)]

\* Mutant: the plan a re-entry returns is entered once more.
Retry_once_more(new_plan, st) ==
    LET r == try_optimize_node(new_plan, st)
    IN IF r.err THEN r
       ELSE LET again == try_optimize_node(r.data, r.st)
            IN IF again.err THEN again ELSE yes(again.data, again.st)

\* self.try_optimize_node(new_plan.clone())?.or(Transformed::yes(new_plan))
Retry(new_plan, st) ==
    LET r == try_optimize_node(new_plan, st)
    IN IF r.err THEN r ELSE or(r, yes(new_plan, r.st))

\* The projection selects exactly the columns of its input, in their order.
projection_is_noop(plan) ==
    LET upstream_names == schema(plan.children[1])
        projection == plan.data.projection
    IN /\ Len(upstream_names) = Len(projection)
       /\ \A i \in 1..Len(projection) :
             projection[i].k = "Column" /\ projection[i].name = upstream_names[i]

\* Mutant: a projection of as many columns as its input has is dropped.
try_optimize_project_noop_by_length(plan, st) ==
    IF Len(schema(plan.children[1])) = Len(plan.data.projection)
    THEN Some(Retry(plan.children[1], st))
    ELSE None

\* The no-op branch of try_optimize_project: Some(result) when it returns.
try_optimize_project_noop(plan, st) ==
    IF projection_is_noop(plan) THEN Some(Retry(plan.children[1], st)) ELSE None

\* The names of the upstream projection's columns that require computation.
upstream_computations(upstream_projection) ==
    { ExprName(upstream_projection[i]) :
        i \in { j \in 1..Len(upstream_projection) :
                  ~input_mapping(upstream_projection[j]).some } }

\* The closure of the flat_map on one expression of the level being walked.
walk_expr(acc, expr, computations) ==
    LET hit == acc.okay /\ expr.k = "Column" /\ expr.name \in computations
        okay == IF hit THEN expr.name \notin acc.used ELSE acc.okay
    IN [okay |-> okay,
        used |-> IF hit THEN acc.used \cup {expr.name} ELSE acc.used,
        next |-> IF okay THEN acc.next \o ExprChildren(expr) ELSE acc.next]

\* One turn of the while loop: the flat_map over exprs_to_walk.
walk_level(exprs, acc, computations) ==
    LET after[i \in 0..Len(exprs)] ==
            IF i = 0 THEN [acc EXCEPT !.next = <<>>]
            ELSE walk_expr(after[i - 1], exprs[i], computations)
    IN after[Len(exprs)]

\* The while loop: okay_to_merge when exprs_to_walk is empty.
RECURSIVE walk_exprs(_, _, _)
walk_exprs(exprs_to_walk, acc, computations) ==
    IF exprs_to_walk = <<>> THEN acc.okay
    ELSE LET a == walk_level(exprs_to_walk, acc, computations)
         IN walk_exprs(a.next, a, computations)

\* Mutant: projections are merged whatever the downstream one references.
okay_to_merge_always(projection, upstream_projection) == TRUE

okay_to_merge(projection, upstream_projection) ==
    walk_exprs(projection, [okay |-> TRUE, used |-> {}, next |-> <<>>],
               upstream_computations(upstream_projection))

\* .map(|e| (e.name(), e)).collect::<HashMap<_, _>>(): of two expressions of
\* one name the later one is kept.
names_to_exprs(exprs) ==
    [n \in Range(Names(exprs)) |->
        exprs[CHOOSE i \in 1..Len(exprs) :
                 /\ ExprName(exprs[i]) = n
                 /\ \A j \in (i + 1)..Len(exprs) : ExprName(exprs[j]) # n]]

\* The merge branch of try_optimize_project: Some(result) when it returns.
try_optimize_project_merge(plan, st) ==
    LET upstream_plan == plan.children[1]
        projection == plan.data.projection
    IN IF upstream_plan.data.op = "Project"
          /\ okay_to_merge(projection, upstream_plan.data.projection)
       THEN LET upstream_names_to_exprs == names_to_exprs(upstream_plan.data.projection)
                merged_projection ==
                    [i \in 1..Len(projection) |->
                        replace_columns_with_expressions(projection[i],
                                                         upstream_names_to_exprs)]
                new_plan == Project_try_new(upstream_plan.children[1], merged_projection)
            IN Some(IF new_plan.err THEN Err(new_plan.error, st)
                    ELSE Retry(new_plan.value, st))
       ELSE None

\* Mutant: the scan is given the columns of its schema that are required,
\* in the order of the schema.
pushdown_columns_in_schema_order(required_columns_, upstream_schema) ==
    Restrict(upstream_schema, Range(required_columns_))

\* Mutant: the scan is asked for a column it does not have.
pushdown_columns_and_more(required_columns_, upstream_schema) ==
    Append(required_columns_, "rowid")

\* required_columns.iter().cloned().collect(): the columns handed to the scan.
pushdown_columns(required_columns_, upstream_schema) == required_columns_

\* Mutant: a projection over a scan is left alone, placeholder or not.
try_optimize_project_source_tolerates_placeholder(plan, st) == no(plan, st)

\* LogicalPlan::Source arm
try_optimize_project_source(plan, st) ==
    LET source == plan.children[1]
        upstream_schema == schema(source)
        required_columns_ == required_columns(plan)[1]
    IN CASE source.data.source_info = "Physical" ->
              IF Len(required_columns_) < Len(upstream_schema)
              THEN LET pruned_upstream_schema ==
                           Restrict(upstream_schema, Range(required_columns_))
                       new_source ==
                           Source(pruned_upstream_schema, "Physical",
                                  with_columns(source.data.pushdowns,
                                      Some(pushdown_columns(required_columns_,
                                                            upstream_schema))))
                   IN Retry(plan_with_new_children(plan, <<new_source>>), st)
              ELSE no(plan, st)
         [] source.data.source_info = "InMemory" -> no(plan, st)
         [] source.data.source_info = "PlaceHolder" ->
              Panic("PlaceHolderInfo should not exist for optimization!", st)

\* A list of bare column references.
resolved_cols(names) == [i \in 1..Len(names) |-> resolved_col(names[i])]

\* The expressions of exprs whose name is in the set keep, in order.
RECURSIVE FilterByName(_, _)
FilterByName(exprs, keep) ==
    IF exprs = <<>> THEN <<>>
    ELSE IF ExprName(Head(exprs)) \in keep
         THEN <<Head(exprs)>> \o FilterByName(Tail(exprs), keep)
         ELSE FilterByName(Tail(exprs), keep)

\* plan with new_upstream (a Result) as its input, optimized again.
RetryWithUpstream(plan, new_upstream, st) ==
    IF new_upstream.err THEN Err(new_upstream.error, st)
    ELSE Retry(plan_with_new_children(plan, <<new_upstream.value>>), st)

\* Mutant: the upstream projection keeps the expressions that are not required.
try_optimize_project_project_keeps_all(plan, st) == no(plan, st)

\* LogicalPlan::Project arm
try_optimize_project_project(plan, st) ==
    LET upstream_plan == plan.children[1]
        required_columns_ == required_columns(plan)[1]
    IN IF Len(required_columns_) < Len(schema(upstream_plan))
       THEN RetryWithUpstream(plan,
                Project_try_new(upstream_plan.children[1],
                    FilterByName(upstream_plan.data.projection, Range(required_columns_))),
                st)
       ELSE no(plan, st)

\* Mutant: the aggregation keeps the expressions that are not required.
try_optimize_project_aggregate_keeps_all(plan, st) == no(plan, st)

\* LogicalPlan::Aggregate arm
try_optimize_project_aggregate(plan, st) ==
    LET aggregate == plan.children[1]
        required_columns_ == required_columns(plan)[1]
        pruned_aggregate_exprs ==
            FilterByName(aggregate.data.aggregations, Range(required_columns_))
    IN IF Len(pruned_aggregate_exprs) < Len(aggregate.data.aggregations)
       THEN RetryWithUpstream(plan,
                Aggregate_try_new(aggregate.children[1], pruned_aggregate_exprs,
                                  aggregate.data.groupby),
                st)
       ELSE no(plan, st)

\* The first arm of LogicalPlan::UDFProject: the projection does not need the
\* UDF's column.
udf_not_required(plan) ==
    ExprName(plan.children[1].data.project) \notin Range(required_columns(plan)[1])

\* Mutant: the UDFProject is kept when its column is not needed.
try_optimize_project_udf_dropped_keeps_udf(plan, st) == no(plan, st)

try_optimize_project_udf_dropped(plan, st) ==
    LET upstream == plan.children[1]
    IN RetryWithUpstream(plan,
           Project_try_new(upstream.children[1], upstream.data.passthrough_columns), st)

\* The for loop: no column is required twice by the projection's expressions.
all_required_column_names_distinct(projection) ==
    LET required_column_names ==
            Flatten([i \in 1..Len(projection) |-> get_required_columns(projection[i])])
    IN \A i, j \in 1..Len(required_column_names) :
          required_column_names[i] = required_column_names[j] => i = j

\* Mutant: the projection is merged into the UDFProject whatever it holds.
can_inline_udf_always(plan) == TRUE

\* The projection can be merged into the upstream UDFProject.
can_inline_udf(plan) ==
    /\ \A i \in 1..Len(plan.data.projection) : ~requires_computation(plan.data.projection[i])
    /\ all_required_column_names_distinct(plan.data.projection)

\* The expressions of exprs that contain a UDF (keep = TRUE) or contain none.
RECURSIVE partition_udf(_, _)
partition_udf(exprs, keep) ==
    IF exprs = <<>> THEN <<>>
    ELSE IF exists_is_udf(Head(exprs)) = keep
         THEN <<Head(exprs)>> \o partition_udf(Tail(exprs), keep)
         ELSE partition_udf(Tail(exprs), keep)

\* The second arm of LogicalPlan::UDFProject: the merge.
try_optimize_project_udf_inline(plan, st) ==
    LET upstream == plan.children[1]
        projection == plan.data.projection
        actor_pool_projection_map ==
            names_to_exprs(upstream.data.passthrough_columns \o <<upstream.data.project>>)
        new_actor_pool_projections ==
            [i \in 1..Len(projection) |->
                replace_columns_with_expressions(projection[i], actor_pool_projection_map)]
        udf == partition_udf(new_actor_pool_projections, TRUE)
        others == partition_udf(new_actor_pool_projections, FALSE)
        new_plan ==
            IF udf # <<>>
            THEN UDFProject_try_new(upstream.children[1], udf[1], others)
            ELSE Project_try_new(upstream.children[1], new_actor_pool_projections)
    IN IF new_plan.err THEN Err(new_plan.error, st) ELSE Retry(new_plan.value, st)

\* The third arm of LogicalPlan::UDFProject: the pass-through columns the
\* projection does not use are dropped.
try_optimize_project_udf_prune(plan, st) ==
    LET upstream == plan.children[1]
        required_columns_ == required_columns(plan)[1]
    IN IF Len(required_columns_) < Len(schema(upstream))
       THEN RetryWithUpstream(plan,
                UDFProject_try_new(upstream.children[1], upstream.data.project,
                    FilterByName(upstream.data.passthrough_columns,
                                 Range(required_columns_))),
                st)
       ELSE no(plan, st)

\* LogicalPlan::UDFProject arm
try_optimize_project_udf(plan, st) ==
    IF udf_not_required(plan) THEN try_optimize_project_udf_dropped(plan, st)
    ELSE IF can_inline_udf(plan) THEN try_optimize_project_udf_inline(plan, st)
    ELSE try_optimize_project_udf_prune(plan, st)

\* Mutant: only the columns the upstream operator requires are collected.
combined_dependencies_of_upstream(plan) ==
    IndexSet(Flatten(required_columns(plan.children[1])))

\* plan.required_columns() chained with upstream_plan.required_columns(),
\* collected into an IndexSet.
combined_dependencies(plan) ==
    IndexSet(Flatten(required_columns(plan)) \o Flatten(required_columns(plan.children[1])))

\* plan with the inputs of its input replaced by new_children (Results).
RetryWithGrandUpstream(plan, new_children, st) ==
    IF \E i \in 1..Len(new_children) : new_children[i].err
    THEN Err(new_children[CHOOSE i \in 1..Len(new_children) :
                            /\ new_children[i].err
                            /\ \A j \in 1..(i - 1) : ~new_children[j].err].error, st)
    ELSE Retry(plan_with_new_children(plan,
                   <<plan_with_new_children(plan.children[1],
                         [i \in 1..Len(new_children) |-> new_children[i].value])>>), st)

\* Mutant: only the columns of the projection are kept below the operator.
pass_through_dependencies_of_projection(plan) == required_columns(plan)[1]

\* The columns a projection inserted below a pass-through operator keeps.
pass_through_dependencies(plan) == combined_dependencies(plan)

\* Sort | Shard | Repartition | Limit | TopN | Filter | Sample | Explode arm
try_optimize_project_pass_through(plan, st) ==
    LET grand_upstream_plan == plan.children[1].children[1]
        combined == pass_through_dependencies(plan)
    IN IF Len(schema(grand_upstream_plan)) = Len(combined) THEN no(plan, st)
       ELSE RetryWithGrandUpstream(plan,
                <<Project_try_new(grand_upstream_plan, resolved_cols(combined))>>, st)

\* Mutant: every required column is pushed below the Unpivot.
can_be_pushed_down_all(plan) == combined_dependencies(plan)

\* input_columns.intersection(&combined_dependencies)
can_be_pushed_down(plan) ==
    LET unpivot == plan.children[1].data
        input_columns == IndexSet(Names(unpivot.ids \o unpivot.values))
    IN Restrict(input_columns, Range(combined_dependencies(plan)))

\* LogicalPlan::Unpivot arm
try_optimize_project_unpivot(plan, st) ==
    LET grand_upstream_plan == plan.children[1].children[1]
        pushed == can_be_pushed_down(plan)
    IN IF Len(schema(grand_upstream_plan)) = Len(pushed) THEN no(plan, st)
       ELSE RetryWithGrandUpstream(plan,
                <<Project_try_new(grand_upstream_plan, resolved_cols(pushed))>>, st)

\* LogicalPlan::Concat arm
try_optimize_project_concat(plan, st) ==
    LET concat == plan.children[1]
        combined == combined_dependencies(plan)
    IN IF Len(schema(concat.children[1])) = Len(combined) THEN no(plan, st)
       ELSE RetryWithGrandUpstream(plan,
                <<Project_try_new(concat.children[1], resolved_cols(combined)),
                  Project_try_new(concat.children[2], resolved_cols(combined))>>, st)

\* Mutant: a side of the join keeps only the columns the projection requires.
maybe_project_upstream_input_without_keys(side, side_dependencies, projection_dependencies) ==
    LET kept == Restrict(schema(side), Range(projection_dependencies))
    IN IF Len(kept) < Len(schema(side))
       THEN [err |-> FALSE, value |-> Project(side, resolved_cols(kept)), transformed |-> TRUE]
       ELSE [err |-> FALSE, value |-> side, transformed |-> FALSE]

\* maybe_project_upstream_input: a Result<Transformed<plan>> without signal.
maybe_project_upstream_input(side, side_dependencies, projection_dependencies) ==
    LET upstream_names == IndexSet(schema(side))
        combined == IndexSet(side_dependencies
                             \o Restrict(upstream_names, Range(projection_dependencies)))
    IN IF Len(combined) < Len(upstream_names)
       THEN LET new_project == Project_try_new(side, resolved_cols(combined))
            IN IF new_project.err THEN new_project
               ELSE [err |-> FALSE, value |-> new_project.value, transformed |-> TRUE]
       ELSE [err |-> FALSE, value |-> side, transformed |-> FALSE]

\* LogicalPlan::Join arm
try_optimize_project_join(plan, st) ==
    LET join == plan.children[1]
        projection_dependencies == required_columns(plan)[1]
        new_left_upstream ==
            maybe_project_upstream_input(join.children[1], required_columns(join)[1],
                                         projection_dependencies)
        new_right_upstream ==
            maybe_project_upstream_input(join.children[2], required_columns(join)[2],
                                         projection_dependencies)
    IN IF new_left_upstream.err THEN Err(new_left_upstream.error, st)
       ELSE IF new_right_upstream.err THEN Err(new_right_upstream.error, st)
       ELSE IF ~new_left_upstream.transformed /\ ~new_right_upstream.transformed
       THEN no(plan, st)
       ELSE RetryWithGrandUpstream(plan, <<new_left_upstream, new_right_upstream>>, st)

\* Mutant: only the columns of the projection are kept below the Distinct.
distinct_union_of_projection(plan) == required_columns(plan)[1]

\* plan_req_cols.union(distinct_req_cols)
distinct_union(plan) ==
    IndexSet(required_columns(plan)[1] \o required_columns(plan.children[1])[1])

\* LogicalPlan::Distinct arm
try_optimize_project_distinct(plan, st) ==
    LET distinct == plan.children[1]
    IN IF ~distinct.data.columns.some THEN no(plan, st)
       ELSE LET new_extra_projection ==
                    Project_try_new(distinct.children[1], resolved_cols(distinct_union(plan)))
            IN IF new_extra_projection.err THEN Err(new_extra_projection.error, st)
               ELSE yes(plan_with_new_children(plan,
                            <<plan_with_new_children(distinct,
                                  <<new_extra_projection.value>>)>>), st)

\* Mutant: a Window, a MonotonicallyIncreasingId, a Pivot and an Intersect are
\* treated as pass-through operators.
try_optimize_project_upstream_passes_through(plan, st) ==
    IF plan.children[1].data.op
          \in {"Window", "MonotonicallyIncreasingId", "Pivot", "Intersect"}
    THEN try_optimize_project_pass_through(plan, st)
    ELSE no(plan, st)

\* The match on the upstream plan of try_optimize_project.
try_optimize_project_upstream(plan, st) ==
    LET op == plan.children[1].data.op
    IN CASE op = "Source" -> try_optimize_project_source(plan, st)
         [] op = "Project" -> try_optimize_project_project(plan, st)
         [] op = "Aggregate" -> try_optimize_project_aggregate(plan, st)
         [] op = "UDFProject" -> try_optimize_project_udf(plan, st)
         [] op \in PassThroughOps -> try_optimize_project_pass_through(plan, st)
         [] op = "Unpivot" -> try_optimize_project_unpivot(plan, st)
         [] op = "Concat" -> try_optimize_project_concat(plan, st)
         [] op = "Union" -> Panic("Union should have been optimized away", st)
         [] op = "Join" -> try_optimize_project_join(plan, st)
         [] op = "Distinct" -> try_optimize_project_distinct(plan, st)
         [] op \in {"Intersect", "Pivot", "MonotonicallyIncreasingId", "Window"} ->
               no(plan, st)
         [] op = "Sink" -> Panic("Bad projection due to upstream sink node", st)
         [] op = "SubqueryAlias" -> Panic("Alias should have been optimized away", st)

try_optimize_project(plan, st) ==
    LET noop == try_optimize_project_noop(plan, st)
        merge == try_optimize_project_merge(plan, st)
    IN IF noop.some THEN noop.value
       ELSE IF merge.some THEN merge.value
       ELSE try_optimize_project_upstream(plan, st)

\* Mutant: no projection is put below the operator.
project_required_below_never(plan, st) == no(plan, st)

\* Mutant: the plan with the projection put below the operator is entered
\* again before it is returned.
project_required_below_retries(plan, st) ==
    LET upstream_plan == plan.children[1]
        required_cols == required_columns(plan)[1]
    IN IF Len(required_cols) < Len(schema(upstream_plan))
       THEN Retry(plan_with_new_children(plan,
                      <<Project(upstream_plan, resolved_cols(required_cols))>>), st)
       ELSE no(plan, st)

\* The body shared by try_optimize_udf_project, try_optimize_aggregation and
\* try_optimize_pivot: a projection of the required columns is put below the
\* operator when they are fewer than the columns of its input.
project_required_below(plan, st) ==
    LET upstream_plan == plan.children[1]
        required_cols == required_columns(plan)[1]
    IN IF Len(required_cols) < Len(schema(upstream_plan))
       THEN LET new_subprojection ==
                    Project_try_new(upstream_plan, resolved_cols(required_cols))
            IN IF new_subprojection.err THEN Err(new_subprojection.error, st)
               ELSE yes(plan_with_new_children(plan, <<new_subprojection.value>>), st)
       ELSE no(plan, st)

try_optimize_udf_project(plan, st) == project_required_below(plan, st)

try_optimize_aggregation(plan, st) == project_required_below(plan, st)

\* Mutant: the right input of a join of any type is pruned.
try_optimize_join_of_any_type(plan, st) ==
    LET right_required_cols == required_columns(plan)[2]
        right == plan.children[2]
    IN IF Len(right_required_cols) < Len(schema(right))
       THEN yes(plan_with_new_children(plan,
                    <<plan.children[1], Project(right, resolved_cols(right_required_cols))>>),
                st)
       ELSE no(plan, st)

try_optimize_join(plan, st) ==
    IF plan.data.join_type \in {"Anti", "Semi"}
    THEN LET right_required_cols == required_columns(plan)[2]
             right == plan.children[2]
         IN IF Len(right_required_cols) < Len(schema(right))
            THEN LET new_subprojection ==
                         Project_try_new(right, resolved_cols(right_required_cols))
                 IN IF new_subprojection.err THEN Err(new_subprojection.error, st)
                    ELSE Retry(plan_with_new_children(plan,
                                   <<plan.children[1], new_subprojection.value>>), st)
            ELSE no(plan, st)
    ELSE no(plan, st)

try_optimize_pivot(plan, st) == project_required_below(plan, st)

try_optimize_node(plan, st) ==
    LET op == plan.data.op
        st1 == PlanLog(st, plan)
    IN CASE op = "Project" -> try_optimize_project(plan, st1)
         [] op = "UDFProject" -> try_optimize_udf_project(plan, st1)
         [] op = "Aggregate" -> try_optimize_aggregation(plan, st1)
         [] op = "Join" -> try_optimize_join(plan, st1)
         [] op = "Pivot" -> try_optimize_pivot(plan, st1)
         [] OTHER -> no(plan, st1)

\* plan.transform_down(|node| self.try_optimize_node(node)), the closure
\* c.transform_down(f) that map_children is given.
RECURSIVE plan_transform_down(_, _)

\* The closure of map_until_stop_and_collect on one input of a plan.
plan_map_item(tnr, item, st) ==
    CASE tnr \in {"Continue", "Jump"} -> plan_transform_down(item, st)
      [] tnr = "Stop" -> Unmapped(item, tnr, st)

\* map_until_stop_and_collect over the inputs of a plan.
plan_map_until_stop_and_collect(items, st) ==
    LET after[i \in 0..Len(items)] ==
            IF i = 0 THEN new(<<>>, FALSE, "Continue", st)
            ELSE LET before == after[i - 1]
                 IN IF before.err THEN before
                    ELSE Collect(before, plan_map_item(before.tnr, items[i], before.st))
    IN after[Len(items)]

\* impl TreeNode for Arc<T: DynTreeNode>, T being LogicalPlan
plan_map_children(node, st) ==
    IF node.children = <<>> THEN no(node, MapLog(st, node, FALSE))
    ELSE arc_with_new_children(node, plan_map_until_stop_and_collect(node.children, st))

\* Mutant: a node whose inputs the walk changed is entered again.
plan_transform_down_children_reenters(d) ==
    IF d.err THEN d
    ELSE LET c == transform_children(d, plan_map_children(d.data, d.st))
         IN IF c.err \/ ~c.transformed THEN c
            ELSE LET again == try_optimize_node(c.data, c.st)
                 IN IF again.err THEN again ELSE [again EXCEPT !.transformed = TRUE]

\* f(node)?.transform_children(..), d being what try_optimize_node returned.
plan_transform_down_children(d) ==
    IF d.err THEN d ELSE transform_children(d, plan_map_children(d.data, d.st))

plan_transform_down(node, st) ==
    plan_transform_down_children(try_optimize_node(node, st))

\* impl OptimizerRule for PushDownProjection
try_optimize(plan, st) == plan_transform_down(plan, st)

\* ---------------------------------------------------------------------------
\* Inputs
\* ---------------------------------------------------------------------------
Outcome(err, transformed, tnr) == [err |-> err, transformed |-> transformed, tnr |-> tnr]

\* What a callback does unless it is one of the special ones.
Default(dc) == Outcome(FALSE, dc, "Continue")

\* The ways a special callback deviates from the default.
Alternatives(dc) ==
    << Outcome(TRUE, dc, "Continue"),
       Outcome(FALSE, dc, "Jump"),
       Outcome(FALSE, dc, "Stop"),
       Outcome(FALSE, ~dc, "Continue") >>

InspectModes == {"visit", "apply"}
RewriteModes == {"rewrite", "transform_down", "transform_up", "transform_down_up"}
DefaultModes == {"rewrite_default"}
Impls == {"Arc", "Concrete"}

\* The callbacks and operations a traversal can invoke on a node.
Kinds(m) ==
    CASE m = "visit" -> {"f_down", "f_up"}
      [] m = "apply" -> {"f_down"}
      [] m \in {"rewrite", "transform_down_up"} -> {"f_down", "f_up", "rebuild"}
      [] m = "transform_down" -> {"f_down", "rebuild"}
      [] m = "transform_up" -> {"f_up", "rebuild"}
      [] m = "rewrite_default" -> {"rebuild"}

\* The deviations (indices of Alternatives) open to a callback or operation: a
\* rebuild can only fail, an inspecting callback has no changed flag.
Deviations(m, kind) ==
    IF kind = "rebuild" THEN {1}
    ELSE IF m \in InspectModes THEN 1..3
    ELSE 1..4

\* Whether the callbacks of the traversal report a change at all.
Flags(m) == IF m \in RewriteModes THEN BOOLEAN ELSE {FALSE}

RECURSIVE SubsetsUpTo(_, _)
SubsetsUpTo(S, k) ==
    IF k = 0 THEN {{}}
    ELSE LET prev == SubsetsUpTo(S, k - 1)
         IN prev \cup { T \cup {x} : T \in prev, x \in S }

\* The number of deviating callbacks: as many as the bound allows on a
\* generated tree, any number of them for the closure of apply, one
\* (visit_event_on / transform_and_event_on) on test_tree.
Special(t) ==
    IF t = test_tree THEN 1
    ELSE IF mode = "apply" THEN Cardinality(Ids(t))
    ELSE MaxSpecial

Config(kind, ids, P, a, dc) ==
    [id \in ids |-> IF <<kind, id>> \in P THEN Alternatives(dc)[a[<<kind, id>>]] ELSE Default(dc)]

EmptySt == [visits |-> <<>>, maps |-> <<>>, found |-> FALSE, plans |-> <<>>]

NoComb == [name |-> "none"]

InitTraversal ==
    /\ mode \in InspectModes \cup RewriteModes \cup DefaultModes
    /\ impl \in (IF mode \in InspectModes THEN {"Arc"} ELSE Impls)
    /\ tree \in SmallTrees \cup {test_tree}
    /\ pred = {}
    /\ \E dc \in Flags(mode) :
       \E P \in SubsetsUpTo(Kinds(mode) \X Ids(tree), Special(tree)) :
       \E a \in [P -> 1..4] :
          /\ \A p \in P : a[p] \in Deviations(mode, p[1])
          /\ f_down = Config("f_down", Ids(tree), P, a, dc)
          /\ f_up = Config("f_up", Ids(tree), P, a, dc)
          /\ failing = { id \in Ids(tree) : <<"rebuild", id>> \in P }

InitExists ==
    /\ mode = "exists"
    /\ impl = "Arc"
    /\ tree \in SmallTrees \cup {test_tree}
    /\ pred \in SUBSET Ids(tree)
    /\ f_down = [id \in Ids(tree) |-> Default(FALSE)]
    /\ f_up = [id \in Ids(tree) |-> Default(FALSE)]
    /\ failing = {}

InitCombinator ==
    /\ mode = "combinator"
    /\ impl = "Arc"
    /\ tree = TestTreeNode(<<>>, Data("x"))
    /\ pred = {}
    /\ f_down = [id \in Ids(tree) |-> Default(FALSE)]
    /\ f_up = [id \in Ids(tree) |-> Default(FALSE)]
    /\ failing = {}

\* The ($EXPR, $F) pairs given to the macro: up to MaxPairs of them, each $F
\* failing or returning any flag and signal.
MacroPairs ==
    UNION { [1..n -> { [expr |-> "given", f |-> o] :
                         o \in { Outcome(FALSE, t, s) : t \in BOOLEAN, s \in TreeNodeRecursion }
                               \cup {Outcome(TRUE, FALSE, "Continue")} }] : n \in 0..MaxPairs }

InitMacro ==
    /\ mode = "macro"
    /\ impl = "Arc"
    /\ tree = TestTreeNode(<<>>, Data("x"))
    /\ pred = {}
    /\ f_down = [id \in Ids(tree) |-> Default(FALSE)]
    /\ f_up = [id \in Ids(tree) |-> Default(FALSE)]
    /\ failing = {}

Init ==
    /\ InitTraversal \/ InitExists \/ InitCombinator \/ InitMacro
    /\ pc = "start"
    /\ visits = <<>>
    /\ maps = <<>>
    /\ result = [kind |-> "none"]
    /\ comb = NoComb
    /\ join_keys = [inner |-> <<>>]

\* ---------------------------------------------------------------------------
\* Operations
\* ---------------------------------------------------------------------------
Finish(r) ==
    /\ pc' = "done"
    /\ visits' = r.st.visits
    /\ maps' = r.st.maps
    /\ UNCHANGED <<mode, impl, tree, f_down, f_up, failing, pred, comb, join_keys>>

Visit ==
    /\ pc = "start" /\ mode = "visit"
    /\ LET r == visit(tree, EmptySt)
       IN /\ result' = IF r.err THEN [kind |-> "Err", error |-> r.error]
                       ELSE [kind |-> "Ok", tnr |-> r.tnr]
          /\ Finish(r)

Apply ==
    /\ pc = "start" /\ mode = "apply"
    /\ LET r == apply(tree, "apply", EmptySt)
       IN /\ result' = IF r.err THEN [kind |-> "Err", error |-> r.error]
                       ELSE [kind |-> "Ok", tnr |-> r.tnr]
          /\ Finish(r)

Exists ==
    /\ pc = "start" /\ mode = "exists"
    /\ LET r == exists(tree, EmptySt)
       IN /\ result' = [kind |-> "Bool", found |-> r.found]
          /\ Finish(r)

\* What a rewriting traversal returned: Ok(Transformed) or Err.
Returned(r) ==
    IF r.err THEN [kind |-> "Err", error |-> r.error]
    ELSE [kind |-> "Ok", data |-> r.data, transformed |-> r.transformed, tnr |-> r.tnr]

Rewrite ==
    /\ pc = "start" /\ mode = "rewrite"
    /\ LET r == rewrite(tree, "test", EmptySt)
       IN result' = Returned(r) /\ Finish(r)

RewriteDefault ==
    /\ pc = "start" /\ mode = "rewrite_default"
    /\ LET r == rewrite(tree, "default", EmptySt)
       IN result' = Returned(r) /\ Finish(r)

TransformDown ==
    /\ pc = "start" /\ mode = "transform_down"
    /\ LET r == transform_down(tree, EmptySt)
       IN result' = Returned(r) /\ Finish(r)

TransformUp ==
    /\ pc = "start" /\ mode = "transform_up"
    /\ LET r == transform_up(tree, EmptySt)
       IN result' = Returned(r) /\ Finish(r)

TransformDownUp ==
    /\ pc = "start" /\ mode = "transform_down_up"
    /\ LET r == transform_down_up(tree, EmptySt)
       IN result' = Returned(r) /\ Finish(r)

\* ---------------------------------------------------------------------------
\* A single combinator applied to a single Transformed
\* ---------------------------------------------------------------------------
Combinators ==
    {"update_data", "map_data", "or", "map_yes_no", "transform_data",
     "transform_children", "transform_sibling", "transform_parent"}

\* The Transformed values a combinator is applied to.
TransformedInputs ==
    { new("x", t, s, EmptySt) : t \in BOOLEAN, s \in TreeNodeRecursion }

\* What the closure given to a combinator returns.
ClosureResults ==
    { new("y", t, s, EmptySt) : t \in BOOLEAN, s \in TreeNodeRecursion }
    \cup { Err([ev |-> "f", id |-> "x"], EmptySt) }

ApplyCombinator(name, self, fres) ==
    CASE name = "update_data" -> update_data(self, "y")
      [] name = "map_data" ->
            map_data(self, IF fres.err THEN fres
                           ELSE [err |-> FALSE, value |-> fres.data, st |-> fres.st])
      [] name = "or" -> or(self, fres)
      [] name = "map_yes_no" -> map_yes_no(self, "y", "n")
      [] name = "transform_data" -> transform_data(self, fres)
      [] name = "transform_children" -> transform_children(self, fres)
      [] name = "transform_sibling" -> transform_sibling(self, fres)
      [] name = "transform_parent" -> transform_parent(self, fres)

Combinator ==
    /\ pc = "start" /\ mode = "combinator"
    /\ \E name \in Combinators, self \in TransformedInputs, fres \in ClosureResults :
          /\ name = "or" => ~fres.err
          /\ comb' = [name |-> name, self |-> self, fres |-> fres,
                      out |-> ApplyCombinator(name, self, fres)]
    /\ pc' = "done"
    /\ UNCHANGED <<mode, impl, tree, f_down, f_up, failing, pred, visits, maps, result, join_keys>>

\* The macro applied to an initial result and a sequence of pairs.
Macro ==
    /\ pc = "start" /\ mode = "macro"
    /\ \E F0 \in TransformedInputs \cup {Err([ev |-> "F0", id |-> 0], EmptySt)},
          pairs \in MacroPairs :
          LET r == map_until_stop_and_collect_macro(F0, pairs)
          IN /\ comb' = [name |-> "map_until_stop_and_collect", self |-> F0, pairs |-> pairs]
             /\ result' = Returned(r)
             /\ visits' = r.st.visits
    /\ pc' = "done"
    /\ UNCHANGED <<mode, impl, tree, f_down, f_up, failing, pred, maps, join_keys>>

Next ==
    \/ Visit \/ Apply \/ Exists
    \/ Rewrite \/ RewriteDefault \/ TransformDown \/ TransformUp \/ TransformDownUp
    \/ Combinator
    \/ Macro

Spec == Init /\ [][Next]_vars

\* ---------------------------------------------------------------------------
\* The rule applied to logical plans
\* ---------------------------------------------------------------------------
MaxCols == 3       \* generated scans have at most this many columns

AllCols == <<"a", "b", "c", "d", "e", "f">>

\* The schemas of the generated scans.
SourceSchemas == { SubSeq(AllCols, 1, n) : n \in 1..MaxCols }

\* Pushdowns that already carry a filter and a limit.
FilteredPushdowns ==
    [DefaultPushdowns EXCEPT !.filters = Some("filter"), !.limit = Some("limit")]

Sources ==
    { Source(s, i, DefaultPushdowns) : s \in SourceSchemas, i \in {"Physical", "InMemory"} }
    \cup { Source(SubSeq(AllCols, 1, MaxCols), "Physical", FilteredPushdowns),
           Source(SubSeq(AllCols, 1, MaxCols), "PlaceHolder", DefaultPushdowns) }

\* The expressions a generated projection is made of, over the columns names.
Menu(names) ==
    UNION { { resolved_col(x), alias(resolved_col(x), "z"), add(resolved_col(x), lit),
              add(resolved_col(x), resolved_col(x)) } : x \in Range(names) }
    \cup { alias(lit, "l") }

\* The sequence names in reverse.
Reversed(names) == [i \in 1..Len(names) |-> names[Len(names) + 1 - i]]

\* The projections generated over a plan with the columns names: one
\* expression, one expression and a column of another name, every column,
\* every column in reverse.
ProjLists(names) ==
    { <<e>> : e \in Menu(names) }
    \cup { l \in { <<e, resolved_col(x)>> : e \in Menu(names), x \in Range(names) } :
               ExprName(l[1]) # ExprName(l[2]) }
    \cup { resolved_cols(names), resolved_cols(Reversed(names)) }

\* The right input of the generated joins.
RightSource == dummy_scan_node(<<"a", "r">>)

\* A UDF over x, named as the tests name it.
MockUdf(x) == alias(create_actor_pool_udf(<<resolved_col(x)>>), "udf_results")

\* The operators generated over the plan input.
OpsOver(input) ==
    LET names == schema(input)
        X == Range(names)
        first == names[1]
        last == names[Len(names)]
    IN { Project(input, l) : l \in ProjLists(names) }
       \cup { Aggregate(input, <<mean(resolved_col(x))>>, <<>>) : x \in X }
       \cup { Aggregate(input, <<mean(resolved_col(p[1]))>>, <<resolved_col(p[2])>>) :
                p \in { q \in X \X X : q[1] # q[2] } }
       \cup { Aggregate(input, <<mean(resolved_col(first)), mean(resolved_col(last))>>, <<>>) :
                x \in { y \in X : first # last } }
       \cup { UDFProject(input, MockUdf(x), resolved_cols(SubSeq(names, 1, k))) :
                x \in X, k \in 0..Len(names) }
       \cup { PassThrough(op, input, <<resolved_col(x)>>) :
                op \in {"Sort", "Repartition", "TopN", "Filter", "Explode"}, x \in X }
       \cup { PassThrough(op, input, <<>>) : op \in {"Shard", "Limit", "Sample"} }
       \cup { Unpivot(input, <<resolved_col(p[1])>>, <<resolved_col(p[2])>>,
                       "variable", "value") :
                p \in { q \in X \X X : q[1] # q[2] } }
       \cup { Concat(input, input), Intersect(input, input), Union(input, input),
              Sink(input), SubqueryAlias(input, "t"),
              MonotonicallyIncreasingId(input, "id"),
              Window(input, <<alias(mean(resolved_col(first)), "w")>>, <<>>),
              Pivot(input, <<resolved_col(first)>>, resolved_col(last), resolved_col(last),
                    <<"p">>),
              Distinct(input, None) }
       \cup { Distinct(input, Some(<<resolved_col(x)>>)) : x \in X }
       \cup { Join(input, RightSource, <<resolved_col(x)>>, <<resolved_col("a")>>, t) :
                x \in X, t \in JoinTypes }
       \cup { Join(input, input, <<resolved_col(first)>>, <<resolved_col(first)>>, t) :
                t \in JoinTypes }

\* The plan is an operator over a scan, or a projection over one.
IsInputPlan(plan) ==
    \E s \in Sources : \E p \in OpsOver(s) :
       \/ plan = p
       \/ \E l \in ProjLists(schema(p)) : plan = Project(p, l)

PlanInit ==
    /\ mode = "try_optimize"
    /\ impl = "Arc"
    /\ IsInputPlan(tree)
    /\ pred = {}
    /\ f_down = <<>>
    /\ f_up = <<>>
    /\ failing = {}
    /\ pc = "start"
    /\ visits = <<>>
    /\ maps = <<>>
    /\ result = [kind |-> "none"]
    /\ comb = NoComb
    /\ join_keys = [inner |-> <<>>]

\* The optimizer applies the rule to the plan.
TryOptimize ==
    /\ pc = "start" /\ mode = "try_optimize"
    /\ LET r == try_optimize(tree, EmptySt)
       IN result' = Returned(r) /\ Finish(r)

\* The optimizer applies the rule to the plan the rule returned.
TryOptimizeAgain ==
    /\ pc = "done" /\ mode = "try_optimize" /\ result.kind = "Ok"
    /\ LET r == try_optimize(result.data, EmptySt)
       IN /\ result' = Returned(r)
          /\ tree' = result.data
          /\ pc' = "again"
          /\ visits' = r.st.visits
          /\ maps' = r.st.maps
          /\ UNCHANGED <<mode, impl, f_down, f_up, failing, pred, comb, join_keys>>

PlanNext == TryOptimize \/ TryOptimizeAgain

PlanSpec == PlanInit /\ [][PlanNext]_vars

\* ---------------------------------------------------------------------------
\* JoinKeySet (optimization/join_key_set.rs)
\*
\* The set is the record [inner |-> s], s the entries of the IndexSet in
\* iteration order; a join key is the pair <<left, right>>.  An operation that
\* takes &mut self and returns a value is an operator to the record
\* [self |-> the set afterwards, ret |-> the value returned].
\* ---------------------------------------------------------------------------

\* The expressions join keys are made of.
Exprs == {"a.x", "b.y"}

\* JoinKeySet::new
JoinKeySet_new == [inner |-> <<>>]

\* Mutant: only the orientation given is looked up.
contains_as_given(self, left, right) ==
    <<left, right>> \in Range(self.inner)

\* JoinKeySet::contains
contains(self, left, right) ==
    \/ <<left, right>> \in Range(self.inner)
    \/ <<right, left>> \in Range(self.inner)

\* JoinKeySet::insert; IndexSet::insert appends a value the set does not hold
\* and leaves the set alone otherwise.
insert(self, left, right) ==
    IF contains(self, left, right)
    THEN [self |-> self, ret |-> FALSE]
    ELSE [self |-> [inner |-> IF <<left, right>> \in Range(self.inner)
                              THEN self.inner
                              ELSE Append(self.inner, <<left, right>>)],
          ret |-> TRUE]

\* JoinKeySet::insert_owned
insert_owned(self, left, right) ==
    IF contains(self, left, right)
    THEN [self |-> self, ret |-> FALSE]
    ELSE [self |-> [inner |-> IF <<left, right>> \in Range(self.inner)
                              THEN self.inner
                              ELSE Append(self.inner, <<left, right>>)],
          ret |-> TRUE]

\* JoinKeySet::insert_all: the loop over iter, inserted |= self.insert(..).
RECURSIVE insert_all(_, _)
insert_all(self, iter) ==
    IF iter = <<>>
    THEN [self |-> self, ret |-> FALSE]
    ELSE LET first == insert(self, Head(iter)[1], Head(iter)[2])
             rest == insert_all(first.self, Tail(iter))
         IN [self |-> rest.self, ret |-> first.ret \/ rest.ret]

\* JoinKeySet::insert_all_owned
RECURSIVE insert_all_owned(_, _)
insert_all_owned(self, iter) ==
    IF iter = <<>>
    THEN [self |-> self, ret |-> FALSE]
    ELSE LET first == insert_owned(self, Head(iter)[1], Head(iter)[2])
             rest == insert_all_owned(first.self, Tail(iter))
         IN [self |-> rest.self, ret |-> first.ret \/ rest.ret]

\* JoinKeySet::insert_intersection: the loop over s1.inner; s1 stands for the
\* entries of s1 not yet iterated.
RECURSIVE insert_intersection(_, _, _)
insert_intersection(self, s1, s2) ==
    IF s1.inner = <<>>
    THEN [self |-> self, ret |-> "unit"]
    ELSE LET left == Head(s1.inner)[1]
             right == Head(s1.inner)[2]
             next == IF contains(s2, left, right)
                     THEN insert(self, left, right).self
                     ELSE self
         IN insert_intersection(next, [inner |-> Tail(s1.inner)], s2)

\* The join keys given to a call: any pair of expressions.
KeyPairs == Exprs \X Exprs

\* The iterators given to insert_all and insert_all_owned.
KeyIters == UNION { [1..n -> KeyPairs] : n \in 0..MaxKeys }

\* The sets given to insert_intersection: what a sequence of inserts builds
\* from an empty set.
KeySets == { insert_all(JoinKeySet_new, iter).self : iter \in KeyIters }

KeyInit ==
    /\ mode = "join_key_set"
    /\ impl = "Arc"
    /\ tree = TestTreeNode(<<>>, Data("x"))
    /\ pred = {}
    /\ f_down = <<>>
    /\ f_up = <<>>
    /\ failing = {}
    /\ pc = "start"
    /\ visits = <<>>
    /\ maps = <<>>
    /\ result = [kind |-> "none"]
    /\ comb = NoComb
    /\ join_keys = JoinKeySet_new

\* What a call leaves behind: the call and the set it was made on in comb, the
\* value it returned in result, the set in join_keys.  Runs are any number of
\* single-key calls followed by at most one call that takes several keys:
\* every set the operations can build is built by single-key calls already.
Called(call, r, to) ==
    /\ pc # "done"
    /\ comb' = call
    /\ result' = [kind |-> "Ok", data |-> r.ret]
    /\ join_keys' = r.self
    /\ pc' = to
    /\ UNCHANGED <<mode, impl, tree, f_down, f_up, failing, pred, visits, maps>>

Insert ==
    /\ mode = "join_key_set"
    /\ \E left \in Exprs, right \in Exprs :
          Called([name |-> "insert", self |-> join_keys, left |-> left, right |-> right],
                 insert(join_keys, left, right), "called")

InsertOwned ==
    /\ mode = "join_key_set"
    /\ \E left \in Exprs, right \in Exprs :
          Called([name |-> "insert_owned", self |-> join_keys, left |-> left, right |-> right],
                 insert_owned(join_keys, left, right), "called")

InsertAll ==
    /\ mode = "join_key_set"
    /\ \E iter \in KeyIters :
          Called([name |-> "insert_all", self |-> join_keys, iter |-> iter],
                 insert_all(join_keys, iter), "done")

InsertAllOwned ==
    /\ mode = "join_key_set"
    /\ \E iter \in KeyIters :
          Called([name |-> "insert_all_owned", self |-> join_keys, iter |-> iter],
                 insert_all_owned(join_keys, iter), "done")

InsertIntersection ==
    /\ mode = "join_key_set"
    /\ \E s1 \in KeySets, s2 \in KeySets :
          Called([name |-> "insert_intersection", self |-> join_keys, s1 |-> s1, s2 |-> s2],
                 insert_intersection(join_keys, s1, s2), "done")

KeyNext == Insert \/ InsertOwned \/ InsertAll \/ InsertAllOwned \/ InsertIntersection

KeySpec == KeyInit /\ [][KeyNext]_vars

\* ---------------------------------------------------------------------------
\* Vocabulary of the properties
\* ---------------------------------------------------------------------------
Done == pc = "done"

RECURSIVE Nodes(_)
Nodes(node) == {node} \cup UNION { Nodes(node.children[i]) : i \in 1..Len(node.children) }

NodeOf(id) == CHOOSE n \in Nodes(tree) : n.data.id = id

Desc(id) == Ids(NodeOf(id)) \ {id}

IsRoot(id) == id = tree.data.id

Parent(id) == CHOOSE p \in Ids(tree) : \E i \in 1..Len(NodeOf(p).children) : NodeOf(p).children[i].data.id = id

IsLastChild(id) ==
    ~IsRoot(id) /\ NodeOf(Parent(id)).children[Len(NodeOf(Parent(id)).children)].data.id = id

\* The walk in which every node is entered, its children are walked from left
\* to right, and the node is left.
RECURSIVE EulerTour(_)
EulerTour(node) ==
    <<[ev |-> "f_down", id |-> node.data.id]>>
    \o Flatten([i \in 1..Len(node.children) |-> EulerTour(node.children[i])])
    \o <<[ev |-> "f_up", id |-> node.data.id]>>

IsDownEvent(e) == e.ev = "f_down"
IsUpEvent(e) == e.ev = "f_up"

\* The all-Continue walk of the traversal that is run.
Reference ==
    CASE mode \in {"visit", "rewrite", "transform_down_up"} -> EulerTour(tree)
      [] mode \in {"apply", "transform_down", "exists"} -> SelectSeq(EulerTour(tree), IsDownEvent)
      [] mode = "transform_up" -> SelectSeq(EulerTour(tree), IsUpEvent)
      [] OTHER -> <<>>

\* What the callback invoked by event e returned.
OutcomeOf(e) == IF e.ev = "f_down" THEN f_down[e.id] ELSE f_up[e.id]

Indices(ev, id) == { i \in 1..Len(visits) : visits[i] = [ev |-> ev, id |-> id] }

Index(ev, id) == CHOOSE i \in Indices(ev, id) : TRUE

\* The callbacks the traversal can invoke, as events.
Callbacks == { [ev |-> k, id |-> id] : k \in Kinds(mode) \ {"rebuild"}, id \in Ids(tree) }

Returns(e, tnr) == ~OutcomeOf(e).err /\ OutcomeOf(e).tnr = tnr

\* No callback fails and no rebuild fails.
NoError == failing = {} /\ \A e \in Callbacks : ~OutcomeOf(e).err

AllContinue == NoError /\ \A e \in Callbacks : Returns(e, "Continue")

\* Exactly the callback e returns tnr, every other callback returns Continue,
\* and nothing fails.
OnlyEvent(e, tnr) ==
    /\ Returns(e, tnr)
    /\ e \in Callbacks
    /\ NoError
    /\ \A o \in Callbacks \ {e} : Returns(o, "Continue")

all_visits ==
    << [ev |-> "f_down", id |-> "j"], [ev |-> "f_down", id |-> "i"],
       [ev |-> "f_down", id |-> "f"], [ev |-> "f_down", id |-> "e"],
       [ev |-> "f_down", id |-> "c"], [ev |-> "f_down", id |-> "b"],
       [ev |-> "f_up", id |-> "b"], [ev |-> "f_down", id |-> "d"],
       [ev |-> "f_down", id |-> "a"], [ev |-> "f_up", id |-> "a"],
       [ev |-> "f_up", id |-> "d"], [ev |-> "f_up", id |-> "c"],
       [ev |-> "f_up", id |-> "e"], [ev |-> "f_down", id |-> "g"],
       [ev |-> "f_down", id |-> "h"], [ev |-> "f_up", id |-> "h"],
       [ev |-> "f_up", id |-> "g"], [ev |-> "f_up", id |-> "f"],
       [ev |-> "f_up", id |-> "i"], [ev |-> "f_up", id |-> "j"] >>

CombinedModes == {"visit", "rewrite", "transform_down_up"}

\* ---------------------------------------------------------------------------
\* Properties
\* ---------------------------------------------------------------------------

\* C1: in visit, rewrite and transform_down_up, when every callback returns
\* Continue and nothing fails, every node gets exactly one f_down and one f_up,
\* f_down(n) comes before f_down of every descendant of n, f_up(n) after f_up of
\* every descendant, and the children of a node are walked left to right (a
\* child's walk is over before its right neighbour's begins); on the canonical
\* tree the log is the 20 events of all_visits.
C1_Ordering ==
    (Done /\ mode \in CombinedModes /\ AllContinue) =>
        /\ \A id \in Ids(tree) :
              /\ Cardinality(Indices("f_down", id)) = 1
              /\ Cardinality(Indices("f_up", id)) = 1
              /\ Index("f_down", id) < Index("f_up", id)
              /\ \A c \in Desc(id) :
                    /\ Index("f_down", id) < Index("f_down", c)
                    /\ Index("f_up", c) < Index("f_up", id)
              /\ \A i \in 1..(Len(NodeOf(id).children) - 1) :
                    Index("f_up", NodeOf(id).children[i].data.id)
                        < Index("f_down", NodeOf(id).children[i + 1].data.id)
        /\ Len(visits) = 2 * Cardinality(Ids(tree))
        /\ tree = test_tree => visits = all_visits

C1_Witness ==
    /\ Done /\ mode = "transform_down_up" /\ AllContinue
    /\ tree = test_tree /\ Len(visits) = 20

\* C2: when f_down(n) returns Jump (every other callback returning Continue),
\* no callback is invoked on a strict descendant of n, the rest of the walk is
\* the all-Continue walk, f_up(n) directly follows f_down(n) in the traversals
\* that have an f_up, and the rewriting traversals return signal Continue with
\* the descendants of n as they were in the input.
C2_JumpDown ==
    (Done /\ mode \in CombinedModes \cup {"apply", "transform_down"}) =>
        \A n \in Ids(tree) :
            OnlyEvent([ev |-> "f_down", id |-> n], "Jump") =>
                LET Kept(e) == e.id \notin Desc(n)
                IN /\ visits = SelectSeq(Reference, Kept)
                   /\ mode \in CombinedModes =>
                         Index("f_up", n) = Index("f_down", n) + 1
                   /\ Desc(n) = {} => visits = Reference
                   /\ mode \in RewriteModes =>
                         /\ result.kind = "Ok"
                         /\ result.tnr = "Continue"
                         /\ \A d \in Desc(n) :
                               \E x \in Nodes(result.data) : x = NodeOf(d)

C2_Witness ==
    /\ Done /\ mode = "rewrite" /\ tree = test_tree
    /\ OnlyEvent([ev |-> "f_down", id |-> "e"], "Jump")
    /\ Len(visits) = 12

\* C3: once a callback has returned Stop no callback is invoked any more, in
\* every traversal, and the traversal returns with signal Stop (it returns a
\* result whenever no replace-children operation fails).
C3_Stop ==
    (Done /\ mode \in InspectModes \cup RewriteModes) =>
        \A i \in 1..Len(visits) :
            Returns(visits[i], "Stop") =>
                /\ i = Len(visits)
                /\ result.kind = "Ok" => result.tnr = "Stop"
                /\ failing = {} => result.kind = "Ok"

C3_Witness ==
    /\ Done /\ mode = "transform_up" /\ tree = test_tree
    /\ Returns([ev |-> "f_up", id |-> "e"], "Stop")
    /\ Len(visits) = 5 /\ result.kind = "Ok" /\ result.tnr = "Stop"

\* The ancestors of x whose f_up a Jump from f_up(x) suppresses: the parent of
\* x if x is a last child, the grandparent if the parent is a last child too,
\* and so on up to the first node that has a later sibling.
RECURSIVE Skipped(_)
Skipped(x) ==
    IF IsLastChild(x) THEN {Parent(x)} \cup Skipped(Parent(x)) ELSE {}

\* C4: when f_up(n) returns Jump (every other callback returning Continue),
\* f_up is skipped for exactly the ancestors reached from n through last
\* children only, and the walk is otherwise the all-Continue walk; on the
\* canonical tree a Jump at a skips f_up of d, c and e, a Jump at e skips
\* nothing.
C4_JumpUp ==
    (Done /\ mode \in CombinedModes \cup {"transform_up"}) =>
        \A n \in Ids(tree) :
            OnlyEvent([ev |-> "f_up", id |-> n], "Jump") =>
                LET Kept(e) == ~(e.ev = "f_up" /\ e.id \in Skipped(n))
                IN /\ visits = SelectSeq(Reference, Kept)
                   /\ (~IsRoot(n) /\ ~IsLastChild(n)) => visits = Reference
                   /\ (tree = test_tree /\ n = "a") =>
                         { e.id : e \in { x \in Callbacks : x.ev = "f_up" /\ Indices("f_up", x.id) = {} } }
                             = {"d", "c", "e"}
                   /\ (tree = test_tree /\ n = "e") => visits = Reference

C4_Witness ==
    /\ Done /\ mode = "visit" /\ tree = test_tree
    /\ OnlyEvent([ev |-> "f_up", id |-> "a"], "Jump")
    /\ Len(visits) = 17
\* The rewrites the invoked callbacks applied to node id, in order.
ExpectedTags(id) ==
    LET Mine(e) == e.id = id /\ ~OutcomeOf(e).err /\ OutcomeOf(e).transformed
        evs == SelectSeq(visits, Mine)
    IN [i \in 1..Len(evs) |-> evs[i].ev]

\* The input tree in which every node carries the rewrites of the callbacks
\* that were invoked on it.
RECURSIVE Retag(_)
Retag(node) ==
    [children |-> [i \in 1..Len(node.children) |-> Retag(node.children[i])],
     data |-> [id |-> node.data.id, tags |-> ExpectedTags(node.data.id)]]

SomeCallbackChanged ==
    \E i \in 1..Len(visits) : ~OutcomeOf(visits[i]).err /\ OutcomeOf(visits[i]).transformed

StopReturned == \E i \in 1..Len(visits) : Returns(visits[i], "Stop")

\* C5: a rewriting traversal ended by Stop returns Ok (no replace-children
\* operation failing): the tree has the shape of the input, every node carries
\* exactly the rewrites of the callbacks invoked on it up to and including the
\* stopping one, nodes no callback ran on are as in the input, changed is the OR
\* of the invoked callbacks' flags, and the signal is Stop.
C5_StopDeliversTree ==
    (Done /\ mode \in RewriteModes /\ failing = {} /\ StopReturned) =>
        /\ result.kind = "Ok"
        /\ result.data = Retag(tree)
        /\ \A id \in Ids(tree) :
              (Indices("f_down", id) = {} /\ Indices("f_up", id) = {}) =>
                  \E x \in Nodes(result.data) : x.data = NodeOf(id).data
        /\ result.transformed = SomeCallbackChanged
        /\ result.tnr = "Stop"

C5_Witness ==
    /\ Done /\ mode = "rewrite" /\ tree = test_tree /\ impl = "Arc"
    /\ Returns([ev |-> "f_down", id |-> "a"], "Stop")
    /\ f_down["j"].transformed
    /\ Len(visits) = 9
    /\ result.kind = "Ok" /\ result.tnr = "Stop" /\ result.transformed
    /\ result.data.children[1].children[1].children[2] = test_tree.children[1].children[1].children[2]

\* C6: the result of a rewriting traversal reports changed exactly when some
\* invoked callback reported changed, under any mix of signals; and no single
\* combinator of Transformed turns changed = true of the value it is applied to
\* (for `or`, of either value) into false.
C6_ChangedExact ==
    /\ (Done /\ mode \in RewriteModes \cup DefaultModes /\ result.kind = "Ok") =>
          (result.transformed <=> SomeCallbackChanged)
    /\ (Done /\ mode = "combinator" /\ ~comb.out.err) =>
          /\ comb.self.transformed => comb.out.transformed
          /\ (comb.name = "or" /\ comb.fres.transformed) => comb.out.transformed

C6_Witness ==
    /\ Done /\ mode = "transform_down" /\ result.kind = "Ok"
    /\ result.transformed /\ result.tnr = "Stop"
    /\ tree = test_tree /\ Len(visits) = 4
    /\ \A i \in 1..Len(visits) : OutcomeOf(visits[i]).transformed

\* C7: transform_down and transform_up with a closure that returns no(x) on
\* every node, and rewrite with the default f_down and f_up, return the input
\* tree with changed = false and signal Continue (no replace-children operation
\* failing, which is C9's case).
C7_Identity ==
    (Done /\ mode \in {"transform_down", "transform_up", "rewrite_default"}
          /\ failing = {}
          /\ \A e \in Callbacks : OutcomeOf(e) = Default(FALSE)) =>
        result = [kind |-> "Ok", data |-> tree, transformed |-> FALSE, tnr |-> "Continue"]

C7_Witness ==
    /\ Done /\ mode = "rewrite_default" /\ impl = "Concrete" /\ tree = test_tree
    /\ failing = {} /\ result.kind = "Ok" /\ Len(maps) = 10

\* Some rewrite of a child of the node of map entry m reported a change.
ChildChanged(m) ==
    \E i \in 1..m.at :
        /\ visits[i].id \in Desc(m.id)
        /\ ~OutcomeOf(visits[i]).err /\ OutcomeOf(visits[i]).transformed

HasChildren(id) == NodeOf(id).children # <<>>

\* C8 as stated: in both blanket implementations map_children calls the
\* replace-children operation if and only if a child rewrite reported a change.
C8_RebuildIffChanged ==
    (Done /\ mode \in RewriteModes \cup DefaultModes) =>
        \A j \in 1..Len(maps) : maps[j].rebuilt <=> ChildChanged(maps[j])

\* C8 amended: Arc<T: DynTreeNode> calls with_new_arc_children if and only if
\* a child rewrite reported a change; T: ConcreteTreeNode, having detached the
\* children, calls with_new_children if and only if the node has children,
\* changed or not.  In both a node without children is not rebuilt, and
\* map_children that reports no change returns a node equal to the one given.
C8_RebuildPerImpl ==
    /\ (Done /\ mode \in RewriteModes \cup DefaultModes) =>
          \A j \in 1..Len(maps) :
              /\ impl = "Arc" => (maps[j].rebuilt <=> ChildChanged(maps[j]))
              /\ impl = "Concrete" => (maps[j].rebuilt <=> HasChildren(maps[j].id))
              /\ ~HasChildren(maps[j].id) => ~maps[j].rebuilt
    /\ (Done /\ mode \in RewriteModes \cup DefaultModes) =>
          LET r == map_children(tree, mode, EmptySt)
          IN (~r.err /\ ~r.transformed) => r.data = tree

C8_Witness ==
    /\ Done /\ mode = "transform_up" /\ impl = "Concrete" /\ tree = test_tree
    /\ ~SomeCallbackChanged /\ result.kind = "Ok"
    /\ \E j \in 1..Len(maps) : maps[j].rebuilt /\ ~ChildChanged(maps[j])

\* C9: when a callback or the replace-children operation fails, no callback
\* is invoked afterwards (the failing callback is the last of the log, a
\* failing rebuild is the last operation), the traversal returns that error
\* and no tree; and a traversal only fails that way.
C9_ErrorAborts ==
    (Done /\ mode \in InspectModes \cup RewriteModes \cup DefaultModes) =>
        /\ \A i \in 1..Len(visits) :
              OutcomeOf(visits[i]).err =>
                  /\ i = Len(visits)
                  /\ result = [kind |-> "Err", error |-> visits[i]]
        /\ \A j \in 1..Len(maps) :
              (maps[j].rebuilt /\ maps[j].id \in failing) =>
                  /\ j = Len(maps)
                  /\ maps[j].at = Len(visits)
                  /\ result = [kind |-> "Err", error |-> [ev |-> "rebuild", id |-> maps[j].id]]
        /\ result.kind = "Err" =>
              \/ Len(visits) > 0 /\ OutcomeOf(visits[Len(visits)]).err
                                 /\ result.error = visits[Len(visits)]
              \/ Len(maps) > 0 /\ maps[Len(maps)].rebuilt /\ maps[Len(maps)].id \in failing

C9_Witness ==
    /\ Done /\ mode = "transform_down_up" /\ tree = test_tree
    /\ f_up["b"].err
    /\ result = [kind |-> "Err", error |-> [ev |-> "f_up", id |-> "b"]]
    /\ Len(visits) = 7

\* C10: exists returns true exactly when the predicate holds of some node; the
\* predicate is evaluated in pre-order and on no node after the first one for
\* which it is true.
C10_Exists ==
    (Done /\ mode = "exists") =>
        LET order == Reference
            hits == { i \in 1..Len(order) : order[i].id \in pred }
            last == IF hits = {} THEN Len(order)
                    ELSE CHOOSE i \in hits : \A h \in hits : i <= h
        IN /\ result.found <=> (\E id \in Ids(tree) : id \in pred)
           /\ visits = [i \in 1..last |-> [ev |-> "pred", id |-> order[i].id]]

C10_Witness ==
    /\ Done /\ mode = "exists" /\ tree = test_tree
    /\ pred = {"d", "g"} /\ result.found /\ Len(visits) = 7

\* The ancestors of node x.
Ancestors(x) == { m \in Ids(tree) : x \in Desc(m) }

\* C11 as stated: in transform_up a Jump returned by f at n is Continue for the
\* level above, f is applied to n's parent and to every further ancestor.
C11_JumpUpIsContinue ==
    (Done /\ mode = "transform_up") =>
        \A n \in Ids(tree) :
            OnlyEvent([ev |-> "f_up", id |-> n], "Jump") =>
                \A m \in Ancestors(n) : Indices("f_up", m) # {}

\* C11 amended: in transform_up a Jump returned by f at n reaches the level
\* above only through the last child: f is applied to n's parent exactly when
\* n has a later sibling, f is not applied to exactly the ancestors reached
\* from n through last children, which stay as in the input, and the traversal
\* returns Jump exactly when the root is n or one of those ancestors.
C11_JumpUpSkipsLastChildChain ==
    (Done /\ mode = "transform_up") =>
        \A n \in Ids(tree) :
            OnlyEvent([ev |-> "f_up", id |-> n], "Jump") =>
                /\ \A m \in Ancestors(n) :
                      Indices("f_up", m) = {} <=> m \in Skipped(n)
                /\ ~IsRoot(n) =>
                      (Indices("f_up", Parent(n)) # {} <=> ~IsLastChild(n))
                /\ \A m \in Ids(tree) \ Ancestors(n) : Indices("f_up", m) # {}
                /\ result.kind = "Ok"
                /\ result.data = Retag(tree)
                /\ \A m \in Skipped(n) :
                      \E x \in Nodes(result.data) : x.data = NodeOf(m).data
                /\ result.tnr = (IF IsRoot(n) \/ tree.data.id \in Skipped(n)
                                 THEN "Jump" ELSE "Continue")

C11_Witness ==
    /\ Done /\ mode = "transform_up" /\ tree = test_tree
    /\ OnlyEvent([ev |-> "f_up", id |-> "a"], "Jump")
    /\ f_up["d"].transformed
    /\ { m \in Ids(tree) : Indices("f_up", m) = {} } = {"d", "c", "e"}
    /\ result.kind = "Ok" /\ result.transformed /\ result.tnr = "Continue"
    /\ result.data.children[1].children[1].children[1].data = Data("e")

\* ---------------------------------------------------------------------------
\* Vocabulary of the properties of the rule
\* ---------------------------------------------------------------------------
\* The rule was applied to tree and returned result.
Optimized == mode = "try_optimize" /\ pc \in {"done", "again"}

\* The rule was applied to the plan it had returned.
OptimizedAgain == mode = "try_optimize" /\ pc = "again"

Succeeded == result.kind = "Ok"

\* The scans of a plan, from left to right.
RECURSIVE Leaves(_)
Leaves(plan) ==
    IF plan.children = <<>> THEN <<plan>>
    ELSE Flatten([i \in 1..Len(plan.children) |-> Leaves(plan.children[i])])

\* The operators of a plan, in pre-order.
RECURSIVE OpsOf(_)
OpsOf(plan) ==
    <<plan.data.op>> \o Flatten([i \in 1..Len(plan.children) |-> OpsOf(plan.children[i])])

\* C12: when the rule is applied to the plan it returned, it succeeds and
\* returns that plan again.
C12_Idempotent == OptimizedAgain => Succeeded /\ result.data = tree

\* Of the generated plans, only those with a Distinct are not returned again
\* when the rule is applied to its own output.
IdempotentWithoutDistinct ==
    (OptimizedAgain /\ "Distinct" \notin Range(OpsOf(tree))) =>
        Succeeded /\ result.data = tree

\* A projection directly over a UDFProject, somewhere in the plan.
RECURSIVE HasProjectOverUDFProject(_)
HasProjectOverUDFProject(plan) ==
    \/ plan.data.op = "Project" /\ plan.children[1].data.op = "UDFProject"
    \/ \E i \in 1..Len(plan.children) : HasProjectOverUDFProject(plan.children[i])

\* C13: the plan the rule returns has the schema of the plan it was given,
\* as an ordered list of column names.
C13_SchemaPreserved == (Optimized /\ Succeeded) => schema(result.data) = schema(tree)

\* The returned plan has the columns of the given plan, and has them in the
\* same order unless a projection was over a UDFProject.
SchemaPreservedButUdfOrder ==
    (Optimized /\ Succeeded) =>
        /\ Range(schema(result.data)) = Range(schema(tree))
        /\ Len(schema(result.data)) = Len(schema(tree))
        /\ ~HasProjectOverUDFProject(tree) => schema(result.data) = schema(tree)

\* The scan `after` produces no column that the scan `before` did not, and is
\* asked for none.
LeafPruned(before, after) ==
    /\ Range(schema(after)) \subseteq Range(schema(before))
    /\ after.data.pushdowns.columns.some =>
          Range(after.data.pushdowns.columns.value) \subseteq Range(schema(before))

\* C14: the returned plan has the scans of the given plan, each producing a
\* subset of the columns it produced before and asked for columns of its
\* schema only.
C14_PruningSound ==
    (Optimized /\ Succeeded) =>
        /\ Len(Leaves(result.data)) = Len(Leaves(tree))
        /\ \A i \in 1..Len(Leaves(tree)) : LeafPruned(Leaves(tree)[i], Leaves(result.data)[i])

\* A scan of three columns under a projection was left with fewer columns.
C14_Witness ==
    /\ pc = "done" /\ Succeeded
    /\ tree.data.op = "Project"
    /\ \E i \in 1..Len(Leaves(tree)) :
          /\ Len(schema(Leaves(tree)[i])) = MaxCols
          /\ Len(schema(Leaves(result.data)[i])) < MaxCols
          /\ Leaves(result.data)[i].data.pushdowns.columns.some

\* The root of the given plan is a projection.
RootIsProject == tree.data.op = "Project"

\* The projection at the root lists the columns of its input, each as a bare
\* column reference, in the order of the input's schema.
RootSelectsInput == tree.data.projection = resolved_cols(schema(tree.children[1]))

\* What the caller of the rule gets: Ok(Transformed) or Err.
ReturnedBy(r) == [kind |-> Returned(r).kind,
                  data |-> IF r.err THEN "none" ELSE r.data,
                  transformed |-> IF r.err THEN FALSE ELSE r.transformed]

\* C15: a projection that lists exactly the columns of its input in their
\* order is removed: the rule returns what it returns for the input, and
\* reports a change.  Any other projection is not removed by that step; over a
\* scan all of whose columns it uses it is returned as it is.
C15_NoopElision ==
    (pc = "done" /\ mode = "try_optimize" /\ RootIsProject) =>
        /\ RootSelectsInput =>
              LET r == ReturnedBy(try_optimize(tree.children[1], EmptySt))
              IN /\ result.kind = r.kind
                 /\ Succeeded => result.data = r.data /\ result.transformed
        /\ ~RootSelectsInput =>
              /\ ~try_optimize_project_noop(tree, EmptySt).some
              /\ ( /\ tree.children[1].data.op = "Source"
                   /\ tree.children[1].data.source_info # "PlaceHolder"
                   /\ Len(required_columns(tree)[1]) = Len(schema(tree.children[1])) )
                 => Succeeded /\ result.data = tree /\ ~result.transformed

\* A projection of all columns of its input was removed and its input, a
\* projection that prunes a scan, was optimized.
C15_Witness ==
    /\ pc = "done" /\ Succeeded /\ RootIsProject /\ RootSelectsInput
    /\ tree.children[1].data.op = "Project"
    /\ result.data # tree.children[1]
    /\ result.transformed
    /\ Len(Leaves(result.data)[1].data.schema) < Len(Leaves(tree)[1].data.schema)

\* A projection of the columns of a scan in reverse was returned as it is.
C15_WitnessReordered ==
    /\ pc = "done" /\ Succeeded /\ RootIsProject /\ ~RootSelectsInput
    /\ tree.children[1].data.op = "Source"
    /\ Len(tree.data.projection) = MaxCols
    /\ result.data = tree

\* A projection that is not a no-op, over a projection, over a scan that can
\* be optimized.
ProjectOverProject ==
    /\ pc = "done" /\ mode = "try_optimize"
    /\ RootIsProject /\ ~RootSelectsInput
    /\ tree.children[1].data.op = "Project"
    /\ \A i \in 1..Len(Leaves(tree)) : Leaves(tree)[i].data.source_info # "PlaceHolder"

\* Every column reference of the projection at the root, nested ones
\* included, one entry for each occurrence.
RootReferences ==
    Flatten([i \in 1..Len(tree.data.projection) |->
                get_required_columns(tree.data.projection[i])])

\* A name of the set names is referenced more than once by the root.
ReferencedTwice(names) ==
    \E i, j \in 1..Len(RootReferences) :
       i # j /\ RootReferences[i] = RootReferences[j] /\ RootReferences[i] \in names

\* The expressions of the upstream projection.
UpProjs == tree.children[1].data.projection

\* The upstream outputs that are not bare column references.
NotBareUp == { ExprName(UpProjs[i]) : i \in { j \in 1..Len(UpProjs) : UpProjs[j].k # "Column" } }

\* A column reference under any number of aliases.
RECURSIVE IsRenamedColumn(_)
IsRenamedColumn(e) == e.k = "Column" \/ (e.k = "Alias" /\ IsRenamedColumn(e.child))

\* The upstream outputs that are more than a column under another name.
ComputedUp == { ExprName(UpProjs[i]) : i \in { j \in 1..Len(UpProjs) : ~IsRenamedColumn(UpProjs[j]) } }

\* projs[i] with every reference to an upstream output replaced by the
\* upstream expression of that name.
Merged ==
    LET up == [n \in Range(Names(UpProjs)) |->
                  CHOOSE e \in Range(UpProjs) : ExprName(e) = n]
    IN [i \in 1..Len(tree.data.projection) |->
           replace_columns_with_expressions(tree.data.projection[i], up)]

\* The rule returned what it returns for the single merged projection.
MergeTookPlace ==
    LET r == ReturnedBy(try_optimize(Project(tree.children[1].children[1], Merged), EmptySt))
    IN Succeeded /\ r.kind = "Ok" /\ result.data = r.data /\ result.transformed

\* Both projections are in the returned plan, the upper one as it was, the
\* lower one with some of its expressions.
BothProjectsRemain ==
    /\ Succeeded
    /\ result.data.data = tree.data
    /\ result.data.children[1].data.op = "Project"
    /\ Range(result.data.children[1].data.projection) \subseteq Range(UpProjs)

C16_WitnessMerged ==
    /\ ProjectOverProject /\ ReferencedTwice(NotBareUp) /\ ~ReferencedTwice(ComputedUp)
    /\ MergeTookPlace

\* The rule was applied to a projection that is not a no-op (the no-op branch
\* is tried first and returns) and whose input is an operator of the set ops.
ProjectOver(ops) ==
    /\ pc = "done" /\ mode = "try_optimize"
    /\ RootIsProject /\ ~RootSelectsInput
    /\ tree.children[1].data.op \in ops

\* The given plan is a projection directly over a scan.
ProjectOverSource == ProjectOver({"Source"})

\* The columns the projection at the root requires of its input.
RootRequired == required_columns(tree)[1]

\* The required columns are fewer than the columns of the scan.
RequiredIsSmaller == Len(RootRequired) < Len(schema(tree.children[1]))

\* The scan of the returned plan is the given scan restricted to the required
\* columns and asked for the list columns, everything else being as it was.
ScanPrunedTo(columns) ==
    LET before == tree.children[1].data
        after == Leaves(result.data)[1].data
    IN /\ Succeeded /\ result.transformed
       /\ Len(Leaves(result.data)) = 1
       /\ after.source_info = before.source_info
       /\ after.schema = Restrict(before.schema, Range(RootRequired))
       /\ after.pushdowns = [before.pushdowns EXCEPT !.columns = Some(columns)]

ReturnedUnchanged == Succeeded /\ result.data = tree /\ ~result.transformed

\* C17: over a physical scan with more columns than required, the scan is
\* asked for the required columns in the order of its schema and restricted to
\* them; otherwise, and over an in-memory source, the plan is returned
\* unchanged.
C17_PushdownInSchemaOrder ==
    ProjectOverSource =>
        LET info == tree.children[1].data.source_info
        IN /\ (info = "Physical" /\ RequiredIsSmaller) =>
                 ScanPrunedTo(Restrict(schema(tree.children[1]), Range(RootRequired)))
           /\ ((info = "Physical" /\ ~RequiredIsSmaller) \/ info = "InMemory") =>
                 ReturnedUnchanged

\* C17, amended: the scan is asked for the required columns in the order in
\* which the projection requires them, which need not be that of the schema;
\* the rest is as in C17.
C17_PushdownInRequiredOrder ==
    ProjectOverSource =>
        LET info == tree.children[1].data.source_info
        IN /\ (info = "Physical" /\ RequiredIsSmaller) => ScanPrunedTo(RootRequired)
           /\ ((info = "Physical" /\ ~RequiredIsSmaller) \/ info = "InMemory") =>
                 ReturnedUnchanged

\* A scan with a filter and a limit was asked for two of its columns, in
\* another order than that of its schema.
C17_Witness ==
    /\ ProjectOverSource /\ RequiredIsSmaller
    /\ tree.children[1].data.pushdowns = FilteredPushdowns
    /\ ScanPrunedTo(RootRequired)
    /\ RootRequired # Restrict(schema(tree.children[1]), Range(RootRequired))

\* No scan of the given plan is a placeholder, on which the rule panics.
NoPlaceHolder ==
    \A i \in 1..Len(Leaves(tree)) : Leaves(tree)[i].data.source_info # "PlaceHolder"

\* The operator under the projection at the root, and its first input.
U == tree.children[1]

UU == tree.children[1].children[1]

\* P's required columns united with U's, P's first.
Combined == IndexSet(RootRequired \o required_columns(U)[1])

\* The rule returned the plan it returns for new_plan, and reported a change.
ContinuedFrom(new_plan) ==
    LET r == ReturnedBy(try_optimize(new_plan, EmptySt))
    IN Succeeded /\ r.kind = "Ok" /\ result.data = r.data /\ result.transformed

\* The given plan with a projection of the columns cols, as bare column
\* references, between U and UU.
WithProjectBelowU(cols) ==
    Project(PassThrough(U.data.op, Project(UU, resolved_cols(cols)), U.data.exprs),
            tree.data.projection)

\* The scan UU restricted to the columns cols and asked for them.
ScanOf(cols) ==
    Source(Restrict(schema(UU), Range(cols)), UU.data.source_info,
           with_columns(UU.data.pushdowns, Some(cols)))

\* C18: under a projection P over a pass-through operator U, nothing changes
\* when the input of U has as many columns as P and U require together;
\* otherwise a projection of those columns is put below U, P and U staying as
\* they are, and over a physical scan the returned plan is P over U over the
\* scan asked for those columns.
C18_PassThrough ==
    (ProjectOver(PassThroughOps) /\ NoPlaceHolder) =>
        IF Len(schema(UU)) = Len(Combined) THEN ReturnedUnchanged
        ELSE /\ ContinuedFrom(WithProjectBelowU(Combined))
             /\ UU.data.source_info = "Physical" =>
                   /\ OpsOf(result.data) = <<"Project", U.data.op, "Source">>
                   /\ result.data.data = tree.data
                   /\ result.data.children[1].data = U.data
                   /\ Leaves(result.data)[1].data.pushdowns.columns.some
                   /\ Range(Leaves(result.data)[1].data.pushdowns.columns.value)
                         = Range(Combined)

\* C18, amended: as C18, but over a physical scan the projection put below U
\* stays in the returned plan unless it lists the columns in the order of the
\* scan's schema, and P is dropped as a no-op when it lists exactly those
\* columns.
C18_PassThroughFinalPlan ==
    (ProjectOver(PassThroughOps) /\ NoPlaceHolder) =>
        IF Len(schema(UU)) = Len(Combined) THEN ReturnedUnchanged
        ELSE /\ ContinuedFrom(WithProjectBelowU(Combined))
             /\ UU.data.source_info = "Physical" =>
                   LET below == IF Combined = Restrict(schema(UU), Range(Combined))
                                THEN ScanOf(Combined)
                                ELSE Project(ScanOf(Combined), resolved_cols(Combined))
                       middle == PassThrough(U.data.op, below, U.data.exprs)
                   IN result.data =
                         IF tree.data.projection = resolved_cols(Combined) THEN middle
                         ELSE Project(middle, tree.data.projection)

\* Scenario S7: Project([a], Filter(b, Scan[a, b, c])) became the same
\* projection and filter over the scan asked for a and b.
C18_Witness ==
    /\ ProjectOver({"Filter"})
    /\ tree.data.projection = <<resolved_col("a")>>
    /\ U.data.exprs = <<resolved_col("b")>>
    /\ UU = dummy_scan_node(<<"a", "b", "c">>)
    /\ Succeeded /\ result.transformed
    /\ result.data =
          Project(PassThrough("Filter",
                      Source(<<"a", "b">>, "Physical",
                             with_columns(DefaultPushdowns, Some(<<"a", "b">>))),
                      <<resolved_col("b")>>),
                  <<resolved_col("a")>>)

\* Project([b], Filter(a, Scan[a, b, c])): the projection of b and a put below
\* the filter stays, the scan's schema being a, b.
C18_WitnessExtraProject ==
    /\ ProjectOver({"Filter"})
    /\ tree.data.projection = <<resolved_col("b")>>
    /\ U.data.exprs = <<resolved_col("a")>>
    /\ UU = dummy_scan_node(<<"a", "b", "c">>)
    /\ Succeeded
    /\ OpsOf(result.data) = <<"Project", "Filter", "Project", "Source">>

\* The names of the columns the Unpivot under the root reads: ids, then values.
UnpivotInputs == IndexSet(Names(U.data.ids \o U.data.values))

\* (ids united with values) intersected with (P's required columns united
\* with the Unpivot's), in the order ids, values.
UnpivotPushed ==
    Restrict(UnpivotInputs, Range(RootRequired) \cup Range(required_columns(U)[1]))

\* The columns the Unpivot under the root produces and does not read.
UnpivotOutputs ==
    {U.data.variable_name, U.data.value_name} \ Range(UnpivotInputs)

\* The given plan with a projection of the columns cols below the Unpivot.
WithProjectBelowUnpivot(cols) ==
    Project(Unpivot(Project(UU, resolved_cols(cols)), U.data.ids, U.data.values,
                    U.data.variable_name, U.data.value_name),
            tree.data.projection)

\* The columns the scan of the returned plan is asked for, all of them when it
\* is asked for none in particular.
Requested ==
    LET leaf == Leaves(result.data)[1].data
    IN IF leaf.pushdowns.columns.some THEN Range(leaf.pushdowns.columns.value)
       ELSE Range(leaf.schema)

\* C19: under a projection P over an Unpivot, nothing changes when the input
\* of the Unpivot has as many columns as (ids united with values) intersected
\* with (P's required columns united with the Unpivot's); otherwise a
\* projection of exactly those columns is put below the Unpivot.  P and the
\* Unpivot stay as they are and no column that only the Unpivot produces is
\* asked of its input.
C19_Unpivot ==
    (ProjectOver({"Unpivot"}) /\ NoPlaceHolder) =>
        /\ IF Len(schema(UU)) = Len(UnpivotPushed) THEN ReturnedUnchanged
           ELSE ContinuedFrom(WithProjectBelowUnpivot(UnpivotPushed))
        /\ Succeeded
        /\ result.data.data = tree.data
        /\ result.data.children[1].data = U.data
        /\ Range(schema(result.data.children[1].children[1])) = Range(UnpivotPushed)
        /\ Requested \cap UnpivotOutputs = {}
        /\ UU.data.source_info = "Physical" => Requested = Range(UnpivotPushed)

\* As in scenario S8: Project([value as z], Unpivot(ids = [a], values = [b],
\* Scan[a, b, c])) became the same projection and Unpivot over the scan asked
\* for a and b.
C19_Witness ==
    /\ ProjectOver({"Unpivot"})
    /\ tree.data.projection = <<alias(resolved_col("value"), "z")>>
    /\ U.data.ids = <<resolved_col("a")>>
    /\ U.data.values = <<resolved_col("b")>>
    /\ UU = dummy_scan_node(<<"a", "b", "c">>)
    /\ Succeeded /\ result.transformed
    /\ result.data =
          Project(Unpivot(Source(<<"a", "b">>, "Physical",
                                 with_columns(DefaultPushdowns, Some(<<"a", "b">>))),
                          <<resolved_col("a")>>, <<resolved_col("b")>>,
                          "variable", "value"),
                  <<alias(resolved_col("value"), "z")>>)

\* The projection at the root does not require the column the UDFProject
\* under it computes.
UdfColumnNotRequired ==
    ExprName(U.data.project) \notin Range(RootRequired)

\* C20: under a projection P that does not require the column of the
\* UDFProject below it, the UDFProject is replaced by a projection of its
\* passthrough columns and the rule continues from there: the returned plan
\* has no UDFProject, and a physical scan below is asked for exactly the
\* columns P requires.
C20_UdfNotRequired ==
    (ProjectOver({"UDFProject"}) /\ NoPlaceHolder /\ UdfColumnNotRequired) =>
        /\ ContinuedFrom(Project(Project(UU, U.data.passthrough_columns),
                                 tree.data.projection))
        /\ \A i \in 1..Len(OpsOf(result.data)) : OpsOf(result.data)[i] # "UDFProject"
        /\ UU.data.source_info = "Physical" => Requested = Range(RootRequired)

\* Scenario S9: Project([a], UDFProject(udf(c) as udf_results, [a, b],
\* Scan[a, b, c])) became the scan asked for a.
C20_Witness ==
    /\ ProjectOver({"UDFProject"})
    /\ tree.data.projection = <<resolved_col("a")>>
    /\ U.data.project = MockUdf("c")
    /\ U.data.passthrough_columns = resolved_cols(<<"a", "b">>)
    /\ UU = dummy_scan_node(<<"a", "b", "c">>)
    /\ Succeeded /\ result.transformed
    /\ result.data = Source(<<"a">>, "Physical",
                            with_columns(DefaultPushdowns, Some(<<"a">>)))

\* The projection at the root requires the column of the UDFProject under it.
ProjectOverRequiredUdf ==
    ProjectOver({"UDFProject"}) /\ NoPlaceHolder /\ ~UdfColumnNotRequired

\* No expression of the projection at the root computes anything, and no
\* column is referenced twice by its expressions.
InlineAllowed ==
    /\ \A i \in 1..Len(tree.data.projection) : ~requires_computation(tree.data.projection[i])
    /\ ~ReferencedTwice(Range(RootReferences))

\* The expressions of P with the columns of the UDFProject put in their place.
InlinedExprs ==
    LET map == names_to_exprs(U.data.passthrough_columns \o <<U.data.project>>)
    IN [i \in 1..Len(tree.data.projection) |->
           replace_columns_with_expressions(tree.data.projection[i], map)]

\* P inlined into the UDFProject: the expression with the UDF call is the
\* UDFProject's, the others are its passthrough columns.
InlinedPlan ==
    UDFProject(UU, partition_udf(InlinedExprs, TRUE)[1], partition_udf(InlinedExprs, FALSE))

\* The UDFProject under the root without the passthrough columns P does not
\* require, under P.
PrunedPassthroughs ==
    Project(UDFProject(UU, U.data.project,
                FilterByName(U.data.passthrough_columns, Range(RootRequired))),
            tree.data.projection)

\* The number of UDF calls in an expression, and in the expressions exprs.
RECURSIVE UdfCalls(_)
UdfCalls(e) ==
    LET below == [i \in 1..Len(ExprChildren(e)) |-> UdfCalls(ExprChildren(e)[i])]
        sum[i \in 0..Len(below)] == IF i = 0 THEN 0 ELSE sum[i - 1] + below[i]
    IN (IF is_udf(e) THEN 1 ELSE 0) + sum[Len(below)]

\* The nodes of a plan with the operator op, in pre-order.
RECURSIVE NodesOf(_, _)
NodesOf(plan, op) ==
    (IF plan.data.op = op THEN <<plan>> ELSE <<>>)
    \o Flatten([i \in 1..Len(plan.children) |-> NodesOf(plan.children[i], op)])

\* The step at the root returned the root as it was, without reporting a
\* change: the plan returned is the root over what the rule returns for each of
\* its inputs, and it is reported changed when one of them is.
RootLeftAlone ==
    LET below == [i \in 1..Len(tree.children) |->
                     ReturnedBy(try_optimize(tree.children[i], EmptySt))]
    IN /\ Succeeded
       /\ \A i \in 1..Len(below) : below[i].kind = "Ok"
       /\ result.data = [tree EXCEPT !.children = [i \in 1..Len(below) |-> below[i].data]]
       /\ result.transformed = \E i \in 1..Len(below) : below[i].transformed

\* C21: a projection P that requires the column of the UDFProject under it is
\* inlined into the UDFProject when it computes nothing and references no
\* column twice.  Otherwise it is not: the only rewrite of the pair drops the
\* passthrough columns P does not require, P stays at the root and the plan
\* returned has the one UDFProject, with the UDF expression as it was.
C21_UdfInlineGuard ==
    ProjectOverRequiredUdf =>
        IF InlineAllowed THEN ContinuedFrom(InlinedPlan)
        ELSE /\ IF Len(RootRequired) < Len(schema(U))
                THEN ContinuedFrom(PrunedPassthroughs)
                ELSE RootLeftAlone
             /\ Succeeded
             /\ result.data.data = tree.data
             /\ result.data.children[1].data = PrunedPassthroughs.children[1].data
             /\ Len(NodesOf(result.data, "UDFProject")) = 1
             /\ UdfCalls(NodesOf(result.data, "UDFProject")[1].data.project) = 1

\* Scenario S10: Project([udf_results as z, udf_results], UDFProject(udf(c) as
\* udf_results, [a, b], Scan[a, b, c])) references the UDF's column twice: it
\* stays over the UDFProject, which lost both passthrough columns.
C21_Witness ==
    /\ ProjectOverRequiredUdf
    /\ tree.data.projection
          = <<alias(resolved_col("udf_results"), "z"), resolved_col("udf_results")>>
    /\ U.data.passthrough_columns = resolved_cols(<<"a", "b">>)
    /\ U.data.project = MockUdf("c")
    /\ UU = dummy_scan_node(<<"a", "b", "c">>)
    /\ Succeeded /\ result.transformed
    /\ result.data =
          Project(UDFProject(Source(<<"c">>, "Physical",
                                    with_columns(DefaultPushdowns, Some(<<"c">>))),
                             MockUdf("c"), <<>>),
                  tree.data.projection)

\* A projection that computes on the UDF's column is not inlined either.
C21_WitnessComputation ==
    /\ ProjectOverRequiredUdf
    /\ tree.data.projection = <<add(resolved_col("udf_results"), lit), resolved_col("a")>>
    /\ U.data.passthrough_columns = resolved_cols(<<"a", "b">>)
    /\ Succeeded /\ result.transformed
    /\ result.data.data = tree.data
    /\ result.data.children[1].data.passthrough_columns = resolved_cols(<<"a">>)

\* A projection that only renames is inlined: the plan returned has no
\* projection over the UDFProject.
C21_WitnessInlined ==
    /\ ProjectOverRequiredUdf /\ InlineAllowed
    /\ Succeeded /\ result.transformed
    /\ result.data.data.op = "UDFProject"

\* The merge of the projection at the root with the projection under it is
\* refused.
MergeRefused == ProjectOverProject /\ ReferencedTwice(ComputedUp)

\* The upstream expressions whose name P requires, in their order.
RequiredUp == FilterByName(UpProjs, Range(RootRequired))

\* C22: when the merge is refused, the upstream projection loses exactly the
\* expressions whose name P does not require, the others keeping their order,
\* and P stays as it is; when P requires all of them the step changes nothing.
C22_UpstreamProjectionPruned ==
    MergeRefused =>
        /\ IF \A i \in 1..Len(UpProjs) : ExprName(UpProjs[i]) \in Range(RootRequired)
           THEN RootLeftAlone
           ELSE ContinuedFrom(Project(Project(UU, RequiredUp), tree.data.projection))
        /\ Succeeded
        /\ result.data.data = tree.data
        /\ result.data.children[1].data = [op |-> "Project", projection |-> RequiredUp]

\* Project([a + a], Project([a + lit, b], Scan[a, b, c])): the merge is
\* refused, b is dropped from the lower projection and the scan is asked for a.
C22_Witness ==
    /\ MergeRefused
    /\ tree.data.projection = <<add(resolved_col("a"), resolved_col("a"))>>
    /\ UpProjs = <<add(resolved_col("a"), lit), resolved_col("b")>>
    /\ UU = dummy_scan_node(<<"a", "b", "c">>)
    /\ Succeeded /\ result.transformed
    /\ result.data =
          Project(Project(Source(<<"a">>, "Physical",
                                 with_columns(DefaultPushdowns, Some(<<"a">>))),
                          <<add(resolved_col("a"), lit)>>),
                  tree.data.projection)

\* A refused merge where P requires every upstream expression.
C22_WitnessAllRequired ==
    /\ MergeRefused
    /\ \A i \in 1..Len(UpProjs) : ExprName(UpProjs[i]) \in Range(RootRequired)
    /\ Len(UpProjs) = 2
    /\ RootLeftAlone

\* The aggregation expressions of the Aggregate under the root whose name P
\* requires, in their order.
RequiredAggregations == FilterByName(U.data.aggregations, Range(RootRequired))

\* C23: under a projection P, an Aggregate loses exactly the aggregation
\* expressions whose name P does not require and keeps every group-by
\* expression; when P requires every aggregation expression the step changes
\* nothing.
C23_AggregationPruned ==
    (ProjectOver({"Aggregate"}) /\ NoPlaceHolder) =>
        /\ IF \A i \in 1..Len(U.data.aggregations) :
                 ExprName(U.data.aggregations[i]) \in Range(RootRequired)
           THEN RootLeftAlone
           ELSE ContinuedFrom(Project(Aggregate(UU, RequiredAggregations, U.data.groupby),
                                      tree.data.projection))
        /\ Succeeded
        /\ Len(NodesOf(result.data, "Aggregate")) = 1
        /\ NodesOf(result.data, "Aggregate")[1].data
              = [U.data EXCEPT !.aggregations = RequiredAggregations]

\* Project([a + lit], Aggregate([mean(a), mean(c)], group by nothing,
\* Scan[a, b, c])): mean(c) is dropped.
C23_Witness ==
    /\ ProjectOver({"Aggregate"})
    /\ tree.data.projection = <<add(resolved_col("a"), lit)>>
    /\ U.data.aggregations = <<mean(resolved_col("a")), mean(resolved_col("c"))>>
    /\ UU = dummy_scan_node(<<"a", "b", "c">>)
    /\ Succeeded /\ result.transformed
    /\ result.data =
          Project(Aggregate(Source(<<"a">>, "Physical",
                                   with_columns(DefaultPushdowns, Some(<<"a">>))),
                            <<mean(resolved_col("a"))>>, <<>>),
                  tree.data.projection)

\* A projection that requires the aggregation and not the group-by column:
\* the group-by expression is kept.
C23_WitnessGroupByKept ==
    /\ ProjectOver({"Aggregate"}) /\ NoPlaceHolder
    /\ U.data.groupby # <<>>
    /\ ExprName(U.data.groupby[1]) \notin Range(RootRequired)
    /\ Succeeded
    /\ NodesOf(result.data, "Aggregate")[1].data.groupby = U.data.groupby

\* What the join under the root requires of its input i, united with the
\* columns of that input that P requires.
SideCombined(i) ==
    IndexSet(required_columns(U)[i]
             \o Restrict(schema(U.children[i]), Range(RootRequired)))

\* Input i of the join has more columns than that.
SidePruned(i) == Len(SideCombined(i)) < Len(schema(U.children[i]))

\* Input i of the join, under a projection of those columns when it has more.
NewSide(i) ==
    IF SidePruned(i) THEN Project(U.children[i], resolved_cols(SideCombined(i)))
    ELSE U.children[i]

\* The columns of input i that the join condition requires or that the output
\* of the join takes from it for P; a Semi or Anti join outputs nothing of its
\* right input.
Needed(i) ==
    Range(required_columns(U)[i])
    \cup (IF i = 2 /\ U.data.join_type \in {"Semi", "Anti"} THEN {}
          ELSE Range(schema(U.children[i])) \cap Range(RootRequired))

\* C24: under a projection P over a Join, a projection of the columns the join
\* condition and P need from a side is put above that side exactly when the
\* side has more columns, each side for itself; every such column is still
\* produced by that side in the plan returned, and when neither side has more
\* columns the step changes nothing.
C24_JoinUnderProjection ==
    (ProjectOver({"Join"}) /\ NoPlaceHolder) =>
        /\ IF ~SidePruned(1) /\ ~SidePruned(2) THEN RootLeftAlone
           ELSE ContinuedFrom(Project([U EXCEPT !.children = <<NewSide(1), NewSide(2)>>],
                                      tree.data.projection))
        /\ Succeeded
        /\ Len(NodesOf(result.data, "Join")) = 1
        /\ NodesOf(result.data, "Join")[1].data = U.data
        /\ \A i \in 1..2 :
              Needed(i) \subseteq Range(schema(NodesOf(result.data, "Join")[1].children[i]))

\* Project([c + lit], Join(Scan[a, b, c] on b, Scan[a, r] on a, Inner)): the
\* left scan keeps b and c, the right scan a.
C24_Witness ==
    /\ ProjectOver({"Join"})
    /\ tree.data.projection = <<add(resolved_col("c"), lit)>>
    /\ U.data.join_type = "Inner"
    /\ U.data.left_on = <<resolved_col("b")>>
    /\ U.children[1] = dummy_scan_node(<<"a", "b", "c">>)
    /\ Succeeded /\ result.transformed
    /\ result.data.data = tree.data
    /\ result.data.children[1].children[1].data.op = "Source"
    /\ result.data.children[1].children[1].data.pushdowns.columns = Some(<<"b", "c">>)
    /\ result.data.children[1].children[2].data.pushdowns.columns = Some(<<"a">>)

\* Only the right side has more columns than needed.
C24_WitnessOneSide ==
    /\ ProjectOver({"Join"}) /\ NoPlaceHolder
    /\ ~SidePruned(1) /\ SidePruned(2)
    /\ Succeeded /\ result.transformed
    /\ NodesOf(result.data, "Join")[1].children[1] = U.children[1]

\* Neither side has more columns than needed.
C24_WitnessUnchanged ==
    /\ ProjectOver({"Join"}) /\ NoPlaceHolder
    /\ ~SidePruned(1) /\ ~SidePruned(2)
    /\ RootLeftAlone

\* The step at the root replaced the root by new_plan and reported a change,
\* without trying new_plan again: the plan returned is new_plan over what the
\* rule returns for its input.
ReplacedBy(new_plan) ==
    LET r == ReturnedBy(try_optimize(new_plan.children[1], EmptySt))
    IN /\ Succeeded /\ r.kind = "Ok"
       /\ result.data = [new_plan EXCEPT !.children = <<r.data>>]
       /\ result.transformed

\* C25: under a projection P, a Distinct over all columns is left alone; below
\* a Distinct over a list of columns a projection of exactly the columns P
\* requires and the columns the Distinct requires is put, P and the Distinct's
\* list staying as they are.
C25_DistinctUnderProjection ==
    (ProjectOver({"Distinct"}) /\ NoPlaceHolder) =>
        IF ~U.data.columns.some THEN RootLeftAlone
        ELSE /\ ReplacedBy(Project(Distinct(Project(UU, resolved_cols(Combined)),
                                            U.data.columns),
                                   tree.data.projection))
             /\ result.data.data = tree.data
             /\ result.data.children[1].data = U.data
             /\ Range(schema(result.data.children[1].children[1])) = Range(Combined)

\* Project([b], Distinct([a], Scan[a, b, c])): the projection of b and a is
\* below the Distinct, over the scan asked for them.
C25_Witness ==
    /\ ProjectOver({"Distinct"})
    /\ tree.data.projection = <<resolved_col("b")>>
    /\ U.data.columns = Some(<<resolved_col("a")>>)
    /\ UU = dummy_scan_node(<<"a", "b", "c">>)
    /\ Succeeded /\ result.transformed
    /\ result.data =
          Project(Distinct(Project(Source(<<"a", "b">>, "Physical",
                                          with_columns(DefaultPushdowns,
                                                       Some(<<"b", "a">>))),
                                   resolved_cols(<<"b", "a">>)),
                           Some(<<resolved_col("a")>>)),
                  <<resolved_col("b")>>)

\* A Distinct over all columns under a projection that is not a no-op.
C25_WitnessAllColumns ==
    /\ ProjectOver({"Distinct"}) /\ NoPlaceHolder
    /\ ~U.data.columns.some
    /\ RootLeftAlone /\ ~result.transformed

\* The operators a projection is not pushed through.
OpaqueOps == {"Intersect", "Pivot", "MonotonicallyIncreasingId", "Window"}

\* C26: the step on a projection that is not a no-op and is directly over an
\* Intersect, Pivot, MonotonicallyIncreasingId or Window changes nothing: the
\* plan returned is the projection over what the rule returns for that
\* operator by itself.
C26_OpaqueOperators ==
    (ProjectOver(OpaqueOps) /\ NoPlaceHolder) => RootLeftAlone

\* A projection that requires fewer columns than the MonotonicallyIncreasingId
\* under it produces: the whole plan is returned as it was.
C26_Witness ==
    /\ ProjectOver({"MonotonicallyIncreasingId"}) /\ NoPlaceHolder
    /\ Len(RootRequired) < Len(schema(U))
    /\ Len(schema(UU)) = MaxCols
    /\ UU.data.source_info = "Physical"
    /\ ReturnedUnchanged

\* The same over a Window, an Intersect and a Pivot.
C26_WitnessWindow ==
    /\ ProjectOver({"Window"}) /\ NoPlaceHolder
    /\ Len(RootRequired) < Len(schema(UU))
    /\ UU.data.source_info = "Physical"
    /\ ReturnedUnchanged

C26_WitnessIntersect ==
    /\ ProjectOver({"Intersect"}) /\ NoPlaceHolder
    /\ Len(RootRequired) < Len(schema(UU))
    /\ UU.data.source_info = "Physical"
    /\ ReturnedUnchanged

C26_WitnessPivot ==
    /\ ProjectOver({"Pivot"}) /\ NoPlaceHolder
    /\ RootLeftAlone
    /\ result.data.data = tree.data
    /\ result.data.children[1].data = U.data

\* The rule was applied to a plan whose root is the operator op.
RootIs(op) == pc = "done" /\ mode = "try_optimize" /\ tree.data.op = op

\* The columns the join at the root requires of its right input.
RightRequired == required_columns(tree)[2]

\* The join at the root is a Semi or Anti join whose right input has more
\* columns than the join requires of it.
RightIsPruned ==
    /\ tree.data.join_type \in {"Semi", "Anti"}
    /\ Len(RightRequired) < Len(schema(tree.children[2]))

\* C27: the step on a Join rewrites only a Semi or Anti join, and only its
\* right input, which gets a projection of the columns the join requires of it
\* when they are fewer than its columns; the left input is never replaced, and
\* an Inner, Left, Right or Outer join is left alone.
C27_StandAloneJoin ==
    (RootIs("Join") /\ NoPlaceHolder) =>
        /\ IF RightIsPruned
           THEN ContinuedFrom([tree EXCEPT !.children[2] =
                                  Project(@, resolved_cols(RightRequired))])
           ELSE RootLeftAlone
        /\ Succeeded
        /\ result.data.data = tree.data
        /\ result.data.children[1] = tree.children[1]
        /\ tree.data.join_type \notin {"Semi", "Anti"} => ReturnedUnchanged

\* A Semi join of Scan[a, b, c] on b with Scan[a, r] on a: the right scan is
\* asked for a, the left scan is as it was.
C27_Witness ==
    /\ RootIs("Join")
    /\ tree.data.join_type = "Semi"
    /\ tree.data.left_on = <<resolved_col("b")>>
    /\ tree.children[1] = dummy_scan_node(<<"a", "b", "c">>)
    /\ tree.children[2] = dummy_scan_node(<<"a", "r">>)
    /\ Succeeded /\ result.transformed
    /\ result.data =
          [tree EXCEPT !.children[2] =
              Source(<<"a">>, "Physical", with_columns(DefaultPushdowns, Some(<<"a">>)))]

\* An Anti join whose right input has the join key only is left alone.
C27_WitnessNothingToPrune ==
    /\ RootIs("Join") /\ NoPlaceHolder
    /\ tree.data.join_type = "Anti"
    /\ ~RightIsPruned
    /\ ReturnedUnchanged

\* An Inner join whose inputs have columns the join does not require.
C27_WitnessInner ==
    /\ RootIs("Join") /\ NoPlaceHolder
    /\ tree.data.join_type = "Inner"
    /\ Len(schema(tree.children[1])) = MaxCols
    /\ ReturnedUnchanged

\* The operators that prune the columns of their input by themselves.
PruningOps == {"UDFProject", "Aggregate", "Pivot"}

\* The rule was applied to a plan whose root is one of the operators ops.
RootIsOneOf(ops) == pc = "done" /\ mode = "try_optimize" /\ tree.data.op \in ops

\* The root requires fewer columns than its input has.
RootRequiresFewer == Len(RootRequired) < Len(schema(tree.children[1]))

\* C28: the step on a UDFProject, an Aggregate or a Pivot puts a projection of
\* exactly the columns the operator requires below it if and only if they are
\* fewer than the columns of its input; otherwise, and on every operator that
\* is neither one of these nor a Project nor a Join, the step changes nothing.
C28_StandAlonePruning ==
    /\ (RootIsOneOf(PruningOps) /\ NoPlaceHolder) =>
          IF RootRequiresFewer
          THEN ReplacedBy([tree EXCEPT !.children[1] = Project(@, resolved_cols(RootRequired))])
          ELSE ReturnedUnchanged
    /\ (Optimized /\ pc = "done" /\ tree.data.op \notin PruningOps \cup {"Project", "Join"}) =>
          ReturnedUnchanged

\* Aggregate([mean(c)], group by a, Scan[a, b, c]): the scan is asked for c
\* and a, under a projection of them.
C28_Witness ==
    /\ RootIs("Aggregate")
    /\ tree.data.aggregations = <<mean(resolved_col("c"))>>
    /\ tree.data.groupby = <<resolved_col("a")>>
    /\ tree.children[1] = dummy_scan_node(<<"a", "b", "c">>)
    /\ Succeeded /\ result.transformed
    /\ result.data =
          Aggregate(Project(Source(<<"a", "c">>, "Physical",
                                   with_columns(DefaultPushdowns, Some(<<"c", "a">>))),
                            resolved_cols(<<"c", "a">>)),
                    tree.data.aggregations, tree.data.groupby)

\* A UDFProject and a Pivot over an input with more columns than they require.
C28_WitnessUdf ==
    /\ RootIs("UDFProject") /\ NoPlaceHolder /\ RootRequiresFewer
    /\ Succeeded /\ result.transformed /\ result.data.data = tree.data

C28_WitnessPivot ==
    /\ RootIs("Pivot") /\ NoPlaceHolder /\ RootRequiresFewer
    /\ Succeeded /\ result.transformed /\ result.data.data = tree.data

\* An operator that requires every column of its input, and an operator of
\* another kind over a scan with columns it does not require.
C28_WitnessNothingToPrune ==
    /\ RootIsOneOf(PruningOps) /\ NoPlaceHolder /\ ~RootRequiresFewer
    /\ ReturnedUnchanged

C28_WitnessOtherOperator ==
    /\ RootIs("Sort") /\ Len(schema(tree.children[1])) = MaxCols
    /\ ReturnedUnchanged

\* The number of nodes of a plan.
NodeCount(plan) == Len(OpsOf(plan))

\* C29: the rule returns on every generated plan, and it has then entered
\* try_optimize_node at most three times for each node of the given plan: the
\* re-entries after a rewrite do not go on.
C29_Terminates ==
    Optimized =>
        /\ result.kind \in {"Ok", "Err"}
        /\ Len(visits) <= 3 * NodeCount(tree)

\* The operators try_optimize_node was entered on, in order.
Entered == [i \in 1..Len(visits) |-> visits[i].id]

\* Project([a], Filter(b, Scan[a, b, c])): the projection is entered, and
\* again once a projection of a and b is below the filter, where nothing is
\* inserted a second time; the inserted projection is entered, again once the
\* scan is asked for a and b, and then dropped.
C29_Witness ==
    /\ ProjectOver({"Filter"})
    /\ tree.data.projection = <<resolved_col("a")>>
    /\ U.data.exprs = <<resolved_col("b")>>
    /\ UU = dummy_scan_node(<<"a", "b", "c">>)
    /\ Succeeded
    /\ Entered = <<"Project", "Project", "Filter", "Project", "Project", "Source">>

\* The longest log of the generated plans: eleven entries on four nodes.
C29_WitnessLongest ==
    /\ Optimized /\ Succeeded
    /\ NodeCount(tree) = 4
    /\ Len(visits) = 11

\* The operators the rule panics on when they are directly under a projection.
FatalOps == {"Sink", "Union", "SubqueryAlias"}

\* plan is a Sink, a Union, a SubqueryAlias or a placeholder scan.
IsFatal(plan) ==
    \/ plan.data.op \in FatalOps
    \/ plan.data.op = "Source" /\ plan.data.source_info = "PlaceHolder"

\* The given plan is a projection, not a no-op, directly over one of them.
FatalAtRoot == ProjectOver(FatalOps \cup {"Source"}) /\ IsFatal(U)

\* The rule ended in a panic.
Panicked == result.kind = "Err" /\ result.error.ev = "panic"

\* Some projection of plan is directly over one of these operators.
RECURSIVE HasProjectOverFatal(_)
HasProjectOverFatal(plan) ==
    \/ plan.data.op = "Project" /\ IsFatal(plan.children[1])
    \/ \E i \in 1..Len(plan.children) : HasProjectOverFatal(plan.children[i])

\* C30 as stated: a projection, not a no-op, directly over a Sink, a Union, a
\* SubqueryAlias or a placeholder scan ends the rule in a panic, and a plan in
\* which no projection is directly over one of these operators does not.
C30_FatalPositions ==
    /\ FatalAtRoot => Panicked
    /\ (pc = "done" /\ mode = "try_optimize" /\ ~HasProjectOverFatal(tree)) => ~Panicked

\* The given plan is not a projection, and it is one of these operators or
\* directly over one.
NonProjectAtFatal ==
    /\ pc = "done" /\ mode = "try_optimize" /\ ~RootIsProject
    /\ \/ tree.data.op \in FatalOps
       \/ \E i \in 1..Len(tree.children) : IsFatal(tree.children[i])

\* The step on the root, which is not a projection, puts a projection
\* directly over the input numbered i.
RootInsertsOver(i) ==
    \/ i = 1 /\ tree.data.op \in PruningOps /\ RootRequiresFewer
    \/ i = 2 /\ tree.data.op = "Join" /\ RightIsPruned

\* Some node of plan is one of these operators.
RECURSIVE HasFatal(_)
HasFatal(plan) ==
    \/ IsFatal(plan)
    \/ \E i \in 1..Len(plan.children) : HasFatal(plan.children[i])

\* C30 (amended): a projection, not a no-op, directly over a Sink, a Union, a
\* SubqueryAlias or a placeholder scan ends the rule in a panic; a panic only
\* ever comes from the step on a projection, in a plan that has one of these
\* operators; a plan that is not a projection and is, or is directly over, one
\* of these operators ends in a panic exactly when the step on its root puts
\* a projection directly over such an input, and is returned unchanged when
\* that step inserts nothing; the rule also ends in a panic when the step on a
\* projection over a pass-through operator puts a projection directly over a
\* placeholder scan.
C30_FatalUnderProjection ==
    /\ FatalAtRoot => Panicked
    /\ (Optimized /\ Panicked) =>
          /\ visits[Len(visits)].id = "Project"
          /\ HasFatal(tree)
    /\ NonProjectAtFatal =>
          /\ Panicked <=> \E i \in 1..Len(tree.children) :
                             RootInsertsOver(i) /\ IsFatal(tree.children[i])
          /\ (\A i \in 1..Len(tree.children) : ~RootInsertsOver(i)) => ReturnedUnchanged
    /\ (ProjectOver(PassThroughOps) /\ IsFatal(UU) /\ Len(Combined) < Len(schema(UU)))
          => Panicked

\* Scenario: a projection of one computed column directly over a Sink; the rule
\* panics when it enters the projection.
C30_Witness ==
    /\ FatalAtRoot /\ U.data.op = "Sink"
    /\ Panicked
    /\ visits = <<[ev |-> "try_optimize_node", id |-> "Project"]>>

C30_WitnessUnion == FatalAtRoot /\ U.data.op = "Union" /\ Panicked

C30_WitnessSubqueryAlias == FatalAtRoot /\ U.data.op = "SubqueryAlias" /\ Panicked

C30_WitnessPlaceHolder == FatalAtRoot /\ U.data.op = "Source" /\ Panicked

\* A Filter directly over a placeholder scan is returned unchanged.
C30_WitnessUnderFilter ==
    /\ NonProjectAtFatal /\ tree.data.op = "Filter" /\ IsFatal(tree.children[1])
    /\ ReturnedUnchanged

\* An Aggregate that requires fewer columns than the placeholder scan under it:
\* the rule panics on the projection it put between the two, although no
\* projection of the given plan is over the scan.
C30_WitnessInserted ==
    /\ NonProjectAtFatal /\ tree.data.op = "Aggregate"
    /\ ~HasProjectOverFatal(tree)
    /\ Panicked
    /\ visits = <<[ev |-> "try_optimize_node", id |-> "Aggregate"],
                  [ev |-> "try_optimize_node", id |-> "Project"]>>

\* The same below a Filter under a projection.
C30_WitnessInsertedBelowFilter ==
    /\ ProjectOver({"Filter"}) /\ IsFatal(UU) /\ ~HasProjectOverFatal(tree)
    /\ Panicked

\* ---------------------------------------------------------------------------
\* Properties of the tree walks, continued
\* ---------------------------------------------------------------------------
\* The closure the running traversal hands to map_children.
ChildClosure == IF mode = "rewrite" THEN "rewrite" ELSE "transform_down_up"

\* What f_down and the walk of the children return on the node n of the input
\* tree: the value transform_parent is applied to.
DownPhase(n) ==
    LET down == TransformCall("f_down", f_down, NodeOf(n), EmptySt)
    IN IF down.err THEN down
       ELSE transform_children(down, map_children(down.data, ChildClosure, down.st))

\* What the running traversal returns on the node n of the input tree.
WalkOf(n) == MapClosure(ChildClosure, NodeOf(n), EmptySt)

\* The walk entered the node n and its f_down / children phase returned.
PhaseReturned(n) == Indices("f_down", n) # {} /\ ~DownPhase(n).err

\* C31 as stated: in rewrite and transform_down_up, f_up is applied to a node
\* whenever the signal after its f_down and children is not Stop.
C31_FUpUnlessStop ==
    (Done /\ mode \in {"rewrite", "transform_down_up"}) =>
        \A n \in Ids(tree) :
            (PhaseReturned(n) /\ DownPhase(n).tnr # "Stop") => Indices("f_up", n) # {}

\* C31 (amended): in rewrite and transform_down_up, f_up is applied to a node
\* exactly when the signal after its f_down and children is Continue, and the
\* node's result then reports a change when f_up or the phase before it did;
\* when the signal is Jump or Stop the phase's result is the node's result.
C31_FUpOnlyOnContinue ==
    (Done /\ mode \in {"rewrite", "transform_down_up"}) =>
        \A n \in Ids(tree) :
            PhaseReturned(n) =>
                /\ Indices("f_up", n) # {} <=> DownPhase(n).tnr = "Continue"
                /\ (DownPhase(n).tnr = "Continue" /\ ~f_up[n].err) =>
                      /\ ~WalkOf(n).err
                      /\ WalkOf(n).transformed
                            = (DownPhase(n).transformed \/ f_up[n].transformed)
                      /\ WalkOf(n).tnr = f_up[n].tnr
                /\ DownPhase(n).tnr # "Continue" => WalkOf(n) = DownPhase(n)
                /\ IsRoot(n) /\ result.kind = "Ok" =>
                      result.transformed = WalkOf(n).transformed

\* Scenario f_up_jump_on_a: f_up(a) returns Jump, the signal after the phases
\* of d, c and e is Jump and their f_up is not called.
C31_Witness ==
    /\ Done /\ mode = "rewrite" /\ tree = test_tree
    /\ OnlyEvent([ev |-> "f_up", id |-> "a"], "Jump")
    /\ \A n \in {"d", "c", "e"} :
          PhaseReturned(n) /\ DownPhase(n).tnr = "Jump" /\ Indices("f_up", n) = {}
    /\ Len(visits) = 17

\* f_up is applied after a phase that reported a change and reports none: the
\* node is reported changed.
C31_WitnessFlag ==
    /\ Done /\ mode = "transform_down_up" /\ result.kind = "Ok"
    /\ \E n \in Ids(tree) :
          /\ PhaseReturned(n) /\ DownPhase(n).tnr = "Continue"
          /\ DownPhase(n).transformed /\ ~f_up[n].err /\ ~f_up[n].transformed
          /\ Indices("f_up", n) # {}
          /\ WalkOf(n).transformed

\* f_down returned Jump: the signal after the phase is Continue, f_up is applied.
C31_WitnessJumpDown ==
    /\ Done /\ mode = "rewrite" /\ tree = test_tree
    /\ OnlyEvent([ev |-> "f_down", id |-> "e"], "Jump")
    /\ DownPhase("e").tnr = "Continue" /\ Indices("f_up", "e") # {}

\* visit on the input tree with the configured f_down and an f_up that does
\* nothing and returns Continue on every node (the f_up of a state in which
\* apply runs).
VisitWithNoOpFUp == visit(tree, EmptySt)

\* The f_up of the state is the no-op one.
NoOpFUp == \A id \in Ids(tree) : f_up[id] = Default(FALSE)

\* C32: apply(f) and visit with f as f_down and a no-op f_up invoke f on the
\* same nodes in the same order and return the same signal, whatever f returns
\* on each node; when f fails both return its error.
C32_ApplyIsVisit ==
    (Done /\ mode = "apply") =>
        LET v == VisitWithNoOpFUp
        IN /\ NoOpFUp
           /\ SelectSeq(v.st.visits, IsDownEvent) = visits
           /\ v.err <=> result.kind = "Err"
           /\ ~v.err => result.tnr = v.tnr
           /\ v.err => result.error = v.error

\* f returns Jump on one node and Stop on a later one: both walks end on the
\* stopping node with Stop, neither having entered the children of the first.
C32_Witness ==
    /\ Done /\ mode = "apply" /\ result.kind = "Ok" /\ result.tnr = "Stop"
    /\ Len(visits) = 3
    /\ Cardinality(Ids(tree)) = 4
    /\ Returns(visits[2], "Jump") /\ Returns(visits[3], "Stop")
    /\ VisitWithNoOpFUp.tnr = "Stop"
    /\ Len(VisitWithNoOpFUp.st.visits) = 4

\* f returns Jump on the last leaf: both return Continue.
C32_WitnessJumpLast ==
    /\ Done /\ mode = "apply" /\ result.kind = "Ok" /\ result.tnr = "Continue"
    /\ Len(visits) = Cardinality(Ids(tree)) /\ Len(visits) > 1
    /\ Returns(visits[Len(visits)], "Jump")
    /\ VisitWithNoOpFUp.tnr = "Continue"

\* The positions in the log of the callbacks invoked on node or below it.
EventsIn(node) == { i \in 1..Len(visits) : visits[i].id \in Ids(node) }

\* What the closure given to apply_children / map_children returns on the
\* child c of a node of the input tree.
SiblingResult(c) ==
    IF mode \in InspectModes THEN ApplyClosure(mode, c, EmptySt)
    ELSE MapClosure(mode, c, EmptySt)

\* The siblings before the i-th of cs all returned, none of them Stop.
Processed(cs, i) ==
    \A j \in 1..(i - 1) : ~SiblingResult(cs[j]).err /\ SiblingResult(cs[j]).tnr # "Stop"

\* The last sibling of cs that is processed, 0 if cs is empty.
LastProcessed(cs) ==
    IF cs = <<>> THEN 0 ELSE CHOOSE i \in 1..Len(cs) :
        Processed(cs, i) /\ (i = Len(cs) \/ ~Processed(cs, i + 1))

\* The children of the node n were iterated: the first of them was entered.
ChildrenWalked(n) ==
    NodeOf(n).children # <<>> /\ EventsIn(NodeOf(n).children[1]) # {}

\* C33: the children of a node are processed from left to right; the next
\* sibling is processed after one that returned Continue or Jump and no later
\* sibling after one that returned Stop.  The list map_until_stop_and_collect
\* returns has the length and order of its input, holds the rewritten sibling
\* where one was processed and the given one after a Stop, reports a change
\* when a processed sibling did, and carries the signal of the last sibling
\* processed, Continue for an empty list; apply_until_stop returns that signal
\* too.
C33_SiblingRule ==
    (Done /\ mode \in InspectModes \cup RewriteModes) =>
        \A n \in Ids(tree) :
            LET cs == NodeOf(n).children
                last == LastProcessed(cs)
            IN /\ ChildrenWalked(n) =>
                     /\ \A i \in 1..Len(cs) : EventsIn(cs[i]) # {} <=> Processed(cs, i)
                     /\ \A i \in 1..(Len(cs) - 1) :
                           \A x \in EventsIn(cs[i]), y \in EventsIn(cs[i + 1]) : x < y
               /\ (mode \in RewriteModes
                      /\ \A i \in 1..Len(cs) : ~SiblingResult(cs[i]).err) =>
                     LET m == map_until_stop_and_collect(cs, mode, EmptySt)
                     IN /\ ~m.err
                        /\ Len(m.data) = Len(cs)
                        /\ \A i \in 1..Len(cs) :
                              m.data[i] = IF Processed(cs, i) THEN SiblingResult(cs[i]).data
                                          ELSE cs[i]
                        /\ m.transformed
                              = \E i \in 1..Len(cs) :
                                   Processed(cs, i) /\ SiblingResult(cs[i]).transformed
                        /\ m.tnr = IF cs = <<>> THEN "Continue"
                                   ELSE SiblingResult(cs[last]).tnr
               /\ (mode \in InspectModes
                      /\ \A i \in 1..Len(cs) : ~SiblingResult(cs[i]).err) =>
                     LET a == apply_until_stop(cs, mode, EmptySt)
                     IN /\ ~a.err
                        /\ a.tnr = IF cs = <<>> THEN "Continue"
                                   ELSE SiblingResult(cs[last]).tnr

\* Two siblings, the first returns Stop and reports a change: the second is
\* not entered, and is collected as it was given.
C33_Witness ==
    /\ Done /\ mode = "transform_up" /\ result.kind = "Ok" /\ result.tnr = "Stop"
    /\ Len(tree.children) = 2
    /\ ChildrenWalked(tree.data.id)
    /\ SiblingResult(tree.children[1]).tnr = "Stop"
    /\ SiblingResult(tree.children[1]).transformed
    /\ EventsIn(tree.children[2]) = {}
    /\ result.transformed
    /\ result.data.children[2] = tree.children[2]
    /\ result.data.children[1] # tree.children[1]

\* The first sibling returns Jump: the second is processed.
C33_WitnessJump ==
    /\ Done /\ mode = "transform_up"
    /\ Len(tree.children) = 2
    /\ SiblingResult(tree.children[1]).tnr = "Jump"
    /\ EventsIn(tree.children[2]) # {}

\* The same for apply_until_stop.
C33_WitnessApply ==
    /\ Done /\ mode = "visit"
    /\ Len(tree.children) = 3
    /\ ChildrenWalked(tree.data.id)
    /\ SiblingResult(tree.children[2]).tnr = "Stop"
    /\ EventsIn(tree.children[2]) # {}
    /\ EventsIn(tree.children[3]) = {}

\* The macro was applied to the initial result comb.self and the pairs
\* comb.pairs.
MacroDone == Done /\ mode = "macro"

\* The running signal after the i-th pair, were no rewrite to fail: that of
\* the initial result, then that of the rewrite of every pair reached with
\* Continue or Jump.
RunningSignal(i) ==
    LET sig[j \in 0..Len(comb.pairs)] ==
            IF j = 0 THEN comb.self.tnr
            ELSE IF sig[j - 1] = "Stop" THEN "Stop" ELSE comb.pairs[j].f.tnr
    IN sig[i]

\* The pairs whose rewrite is reached with Continue or Jump and fails.
FailingPairs ==
    { i \in 1..Len(comb.pairs) : RunningSignal(i - 1) # "Stop" /\ comb.pairs[i].f.err }

\* The first of them.
FirstFailing == CHOOSE i \in FailingPairs : \A j \in FailingPairs : i <= j

\* The evaluations of rewrites in the log are those of the pairs in S, in order.
EvaluatedExactly(S) ==
    /\ { visits[k].id : k \in 1..Len(visits) } = S
    /\ Len(visits) = Cardinality(S)
    /\ \A k \in 1..(Len(visits) - 1) : visits[k].id < visits[k + 1].id

\* C34: slot 0 of the tuple holds the data of F0; slot i holds the data of
\* rewrite_i when the running signal before it is Continue or Jump, and
\* fallback_i, rewrite_i not being evaluated, when it is Stop; changed is the
\* OR of the flags of F0 and of the evaluated rewrites, the signal is that of
\* F0 or of the last evaluated rewrite; an error of F0 or of an evaluated
\* rewrite is the whole result, and nothing is evaluated after it.
C34_HeterogeneousCombinator ==
    MacroDone =>
        LET n == Len(comb.pairs)
            Reached == { i \in 1..n : RunningSignal(i - 1) # "Stop" }
        IN IF comb.self.err
           THEN /\ result = [kind |-> "Err", error |-> comb.self.error]
                /\ visits = <<>>
           ELSE IF FailingPairs # {}
           THEN /\ result = [kind |-> "Err", error |-> [ev |-> "F", id |-> FirstFailing]]
                /\ EvaluatedExactly({ i \in Reached : i <= FirstFailing })
           ELSE /\ result.kind = "Ok"
                /\ Len(result.data) = n + 1
                /\ result.data[1] = comb.self.data
                /\ \A i \in 1..n :
                      result.data[i + 1] = IF i \in Reached THEN <<"rewritten", i>>
                                           ELSE comb.pairs[i].expr
                /\ result.transformed
                      = (comb.self.transformed
                            \/ \E i \in Reached : comb.pairs[i].f.transformed)
                /\ result.tnr = RunningSignal(n)
                /\ EvaluatedExactly(Reached)

\* Three pairs: the first rewrite returns Jump, the second Stop with a change,
\* the third is not evaluated and its slot holds the fallback.
C34_Witness ==
    /\ MacroDone /\ Len(comb.pairs) = 3
    /\ ~comb.self.err /\ ~comb.self.transformed /\ comb.self.tnr = "Continue"
    /\ comb.pairs[1].f = Outcome(FALSE, FALSE, "Jump")
    /\ comb.pairs[2].f = Outcome(FALSE, TRUE, "Stop")
    /\ result = [kind |-> "Ok",
                 data |-> <<"x", <<"rewritten", 1>>, <<"rewritten", 2>>, "given">>,
                 transformed |-> TRUE, tnr |-> "Stop"]
    /\ visits = <<[ev |-> "F", id |-> 1], [ev |-> "F", id |-> 2]>>

\* F0 returns Stop: no rewrite is evaluated.
C34_WitnessStopFirst ==
    /\ MacroDone /\ Len(comb.pairs) = 2 /\ ~comb.self.err /\ comb.self.tnr = "Stop"
    /\ result.kind = "Ok" /\ result.data = <<"x", "given", "given">>
    /\ visits = <<>>

\* The second rewrite fails: its error is the result.
C34_WitnessError ==
    /\ MacroDone /\ Len(comb.pairs) = 3 /\ ~comb.self.err
    /\ result = [kind |-> "Err", error |-> [ev |-> "F", id |-> 2]]
    /\ Len(visits) = 2

\* What try_optimize_node returns for the given plan, and the entries it logs:
\* the first is the call itself, every further one a re-entry.
RootStep == try_optimize_node(tree, EmptySt)

\* The step on the given plan returned a plan other than the given one.
ProducedDifferent == pc = "done" /\ mode = "try_optimize" /\ ~RootStep.err /\ RootStep.data # tree

\* The step re-entered try_optimize_node before it returned.
Reentered == Len(RootStep.st.visits) > 1

\* The sum of the numbers of seq.
RECURSIVE SumOf(_)
SumOf(seq) == IF seq = <<>> THEN 0 ELSE Head(seq) + SumOf(Tail(seq))

\* The sum of the lengths of the projection lists and aggregation lists of plan.
RECURSIVE ListLength(_)
ListLength(plan) ==
    (CASE plan.data.op = "Project" -> Len(plan.data.projection)
       [] plan.data.op = "Aggregate" -> Len(plan.data.aggregations)
       [] OTHER -> 0)
    + SumOf([i \in 1..Len(plan.children) |-> ListLength(plan.children[i])])

\* The number of passthrough columns of the UDFProjects of plan.
RECURSIVE PassthroughCount(_)
PassthroughCount(plan) ==
    (IF plan.data.op = "UDFProject" THEN Len(plan.data.passthrough_columns) ELSE 0)
    + SumOf([i \in 1..Len(plan.children) |-> PassthroughCount(plan.children[i])])

\* The number of columns of the scans of plan.
ScanColumns(plan) == SumOf([i \in 1..Len(Leaves(plan)) |-> Len(schema(Leaves(plan)[i]))])

\* One of the three counts the claim names is smaller after than before.
Reduced(before, after) ==
    \/ NodeCount(after) < NodeCount(before)
    \/ ListLength(after) < ListLength(before)
    \/ PassthroughCount(after) < PassthroughCount(before)

\* C35 as stated: a step that returns a different plan has re-entered
\* try_optimize_node on it, and the plan it re-entered on has fewer operators,
\* a shorter projection list or fewer passthrough columns than the given one.
C35_ReentryReduces ==
    ProducedDifferent => Reentered /\ Reduced(tree, RootStep.data)

\* The plans try_optimize_node was entered on during the step on the given
\* plan: the given plan, then the plan of every re-entry.
EnteredPlans == RootStep.st.plans

\* The number of operators op in plan.
CountOf(plan, op) == Len(NodesOf(plan, op))

\* C35 (amended): a step that returns a different plan has re-entered
\* try_optimize_node on it unless it is the step on a UDFProject, an Aggregate
\* or a Pivot or the Distinct arm under a projection, which return the new
\* plan at once.  The plan of a re-entry has fewer operators, a shorter
\* projection or aggregation list, fewer passthrough columns, fewer
\* UDFProjects or fewer scan columns than the plan entered before it, or it
\* has more operators, all of them projections; after such an insertion the
\* chain ends or the next re-entry is on a plan with fewer operators.
C35_ReentryOrInsertion ==
    /\ ProducedDifferent =>
          (Reentered <=> ~(tree.data.op \in PruningOps \/ ProjectOver({"Distinct"})))
    /\ (pc = "done" /\ mode = "try_optimize") =>
          \A k \in 1..(Len(EnteredPlans) - 1) :
              LET before == EnteredPlans[k]
                  after == EnteredPlans[k + 1]
              IN \/ Reduced(before, after)
                 \/ CountOf(after, "UDFProject") < CountOf(before, "UDFProject")
                 \/ ScanColumns(after) < ScanColumns(before)
                 \/ /\ NodeCount(after) > NodeCount(before)
                    /\ CountOf(after, "Project") - CountOf(before, "Project")
                          = NodeCount(after) - NodeCount(before)
                    /\ \/ k + 1 = Len(EnteredPlans)
                       \/ NodeCount(EnteredPlans[k + 2]) < NodeCount(after)

\* Scenario S7: the step on a projection over a Filter over a wider scan
\* re-enters on the plan with a projection inserted below the Filter, which
\* has one operator more, no shorter list and no fewer passthrough columns.
C35_Witness ==
    /\ ProjectOver({"Filter"}) /\ ProducedDifferent /\ Reentered
    /\ Len(EnteredPlans) = 2
    /\ NodeCount(EnteredPlans[2]) = NodeCount(tree) + 1
    /\ ~Reduced(tree, EnteredPlans[2])
    /\ RootStep.data = EnteredPlans[2]

\* The step on an Aggregate over a wider scan returns the plan with the
\* projection inserted without entering it.
C35_WitnessNoReentry ==
    /\ RootIs("Aggregate") /\ ProducedDifferent /\ ~Reentered

\* The same for the Distinct arm.
C35_WitnessDistinct ==
    /\ ProjectOver({"Distinct"}) /\ ProducedDifferent /\ ~Reentered

\* A push-down into the scan: the re-entry is on a plan with as many
\* operators, list entries and passthrough columns, and fewer scan columns.
C35_WitnessPushDown ==
    /\ ProjectOverSource /\ ProducedDifferent /\ Reentered
    /\ ~Reduced(tree, EnteredPlans[2])
    /\ ScanColumns(EnteredPlans[2]) < ScanColumns(tree)

\* What the rule returns for the i-th input of the plan the step on the given
\* plan returned.
BelowRoot(i) == try_optimize(RootStep.data.children[i], EmptySt)

\* The walk changed the subtree of an input of the root.
ChildChangedByWalk ==
    /\ ~RootStep.err
    /\ \E i \in 1..Len(RootStep.data.children) :
          ~BelowRoot(i).err /\ BelowRoot(i).transformed

\* The entries of the walks of the first n inputs of the root, in order.
RECURSIVE EntriesBelow(_)
EntriesBelow(n) ==
    IF n = 0 THEN <<>>
    ELSE IF \E j \in 1..(n - 1) : BelowRoot(j).err THEN EntriesBelow(n - 1)
    ELSE EntriesBelow(n - 1) \o BelowRoot(n).st.visits

\* C36 as stated: when the walk has changed the subtree of an input of a
\* node, try_optimize_node is applied to the node again: the log has an entry
\* beyond those of the step on the node and of the walks of its inputs.
C36_ReentersWhenChildChanged ==
    (pc = "done" /\ mode = "try_optimize" /\ ChildChangedByWalk) =>
        Len(visits) > Len(RootStep.st.visits)
                         + Len(EntriesBelow(Len(RootStep.data.children)))

\* C36 (amended): transform_down applies try_optimize_node to a node once,
\* before its inputs are walked, and not again when the walk has changed one
\* of them: the log is the entries of the step on the root followed by those
\* of the walks of its inputs from left to right, a change below the root is
\* reported, and the root of the returned plan is the one the step returned.
C36_EnteredBeforeInputsOnly ==
    (pc = "done" /\ mode = "try_optimize" /\ ~RootStep.err) =>
        /\ visits = RootStep.st.visits \o EntriesBelow(Len(RootStep.data.children))
        /\ ChildChangedByWalk => (Succeeded => result.transformed)
        /\ Succeeded => result.data.data = RootStep.data.data

\* A projection of a computed column over an Aggregate over a wider scan: the
\* step on the projection changes nothing, the walk puts a projection below
\* the Aggregate and prunes the scan, and the root is not entered again.
C36_Witness ==
    /\ ProjectOver({"Aggregate"}) /\ Succeeded
    /\ ~RootStep.transformed /\ Len(RootStep.st.visits) = 1
    /\ ChildChangedByWalk /\ result.transformed
    /\ visits[1].id = "Project" /\ visits[2].id = "Aggregate"
    /\ Len(visits) = 1 + Len(BelowRoot(1).st.visits)

\* A root that is not a projection, over a changed input.
C36_WitnessSemiJoin ==
    /\ RootIs("Join") /\ Succeeded /\ ChildChangedByWalk
    /\ { i \in 1..Len(visits) : visits[i].id = "Join" } = 1..Len(RootStep.st.visits)

\* C37: the rule reports a change only when the plan it returns differs from
\* the plan it was given, and reports none when it is applied to the plan it
\* returned, so that a loop repeating the rule until it reports no change
\* ends with the second application.
C37_ChangedFlagTruthful ==
    /\ (Optimized /\ Succeeded /\ result.transformed) => result.data # tree
    /\ (OptimizedAgain /\ Succeeded) => ~result.transformed

\* Of the generated plans, only those with a Distinct are reported changed
\* when they are returned as they were given, or when the rule is applied to
\* its own output.
ChangedFlagTruthfulWithoutDistinct ==
    "Distinct" \notin Range(OpsOf(tree)) => C37_ChangedFlagTruthful

\* A projection over a Distinct on a column list is returned as it was given
\* and reported changed, by the first application and by the second.
ChangedReportedForever ==
    /\ OptimizedAgain /\ Succeeded
    /\ tree.data.op = "Project" /\ tree.children[1].data.op = "Distinct"
    /\ result.data = tree /\ result.transformed

\* Every operator of plan finds the columns it requires of each input in that
\* input's schema.
RECURSIVE Supplied(_)
Supplied(plan) ==
    \A i \in 1..Len(plan.children) :
        /\ Range(required_columns(plan)[i]) \subseteq Range(schema(plan.children[i]))
        /\ Supplied(plan.children[i])

\* C38: in the plan the rule returns for a plan in which every operator finds
\* the columns it requires, every operator finds the columns it requires of
\* each of its inputs in that input's schema.
C38_NoNeededColumnPruned ==
    (Optimized /\ Succeeded /\ Supplied(tree)) => Supplied(result.data)

\* Scenario S7: a projection of column a over a Filter on column b over a
\* scan of a, b and c; the scan of the returned plan has lost c and kept the
\* column of the Filter, which the projection does not read.
C38_Witness ==
    /\ ProjectOver({"Filter"}) /\ pc = "done" /\ Succeeded /\ result.transformed
    /\ schema(UU) = <<"a", "b", "c">>
    /\ RootRequired = <<"a">>
    /\ required_columns(U)[1] = <<"b">>
    /\ schema(Leaves(result.data)[1]) = <<"a", "b">>
    /\ Supplied(result.data)

\* A Semi join under a projection that reads one column of the left input:
\* both inputs keep their key.
C38_WitnessJoin ==
    /\ ProjectOver({"Join"}) /\ pc = "done" /\ Succeeded /\ result.transformed
    /\ U.data.join_type = "Semi"
    /\ \A i \in 1..2 : Len(schema(Leaves(result.data)[i])) < Len(schema(Leaves(tree)[i]))
    /\ ~(Range(RootRequired) \subseteq Range(required_columns(U)[1]))
    /\ Supplied(result.data)

\* ---------------------------------------------------------------------------
\* C39: JoinKeySet
\* ---------------------------------------------------------------------------
Flipped(pair) == <<pair[2], pair[1]>>

\* The set holds the pair in one orientation or the other.
Holds(set, pair) == pair \in Range(set.inner) \/ Flipped(pair) \in Range(set.inner)

\* The join keys of a set with their orientation forgotten.
Unordered(set) == { {pair[1], pair[2]} : pair \in Range(set.inner) }

Before == comb.self
LastCall(names) == mode = "join_key_set" /\ pc # "start" /\ comb.name \in names

\* The entries the last call appended.
Appended == SubSeq(join_keys.inner, Len(Before.inner) + 1, Len(join_keys.inner))
KeptPrefix ==
    /\ Len(Before.inner) <= Len(join_keys.inner)
    /\ SubSeq(join_keys.inner, 1, Len(Before.inner)) = Before.inner

\* No entry twice, and no entry together with its flipped pair.
NoPairTwice ==
    \A i \in 1..Len(join_keys.inner), j \in 1..Len(join_keys.inner) :
        i # j => /\ join_keys.inner[i] # join_keys.inner[j]
                 /\ join_keys.inner[i] # Flipped(join_keys.inner[j])

ContainsIsSymmetric ==
    \A l \in Exprs, r \in Exprs :
        /\ contains(join_keys, l, r) = contains(join_keys, r, l)
        /\ contains(join_keys, l, r) = Holds(join_keys, <<l, r>>)

InsertAppendsIfAbsent ==
    LastCall({"insert", "insert_owned"}) =>
        /\ result.data = ~Holds(Before, <<comb.left, comb.right>>)
        /\ join_keys.inner = IF result.data
                             THEN Append(Before.inner, <<comb.left, comb.right>>)
                             ELSE Before.inner

\* Position of a pair in the iteration of s1.
PlaceIn(set, pair) == CHOOSE i \in 1..Len(set.inner) : set.inner[i] = pair

IntersectionAdded ==
    LastCall({"insert_intersection"}) =>
        /\ KeptPrefix
        /\ Unordered(join_keys) = Unordered(Before) \cup (Unordered(comb.s1) \cap Unordered(comb.s2))
        /\ Range(Appended) = { pair \in Range(comb.s1.inner) :
                                 Holds(comb.s2, pair) /\ ~Holds(Before, pair) }
        /\ \A i \in 1..Len(Appended), j \in 1..Len(Appended) :
              i < j => PlaceIn(comb.s1, Appended[i]) < PlaceIn(comb.s1, Appended[j])

\* C39: after any sequence of insert, insert_owned, insert_all,
\* insert_all_owned and insert_intersection calls the set holds no pair twice
\* and no pair together with its flipped pair; contains gives the same answer
\* for (l, r) and (r, l); insert and insert_owned return true exactly when the
\* set held the pair in neither orientation, and then the set is the earlier
\* entries followed by the pair, and is unchanged otherwise;
\* insert_intersection(s1, s2) makes the set, as a set of unordered pairs, the
\* union of what it was and of the pairs of s1 that s2 holds in either
\* orientation, appending those it did not hold, as s1 has them and in the
\* order of s1.
C39_UnorderedPairs ==
    mode = "join_key_set" =>
        /\ NoPairTwice
        /\ ContainsIsSymmetric
        /\ InsertAppendsIfAbsent
        /\ IntersectionAdded

\* insert of (b.y, a.x) into a set that holds (a.x, b.y) after another key
\* returns false and leaves the set alone.
C39_Witness ==
    /\ LastCall({"insert"})
    /\ Len(Before.inner) = 2
    /\ comb.left # comb.right
    /\ <<comb.left, comb.right>> \notin Range(Before.inner)
    /\ <<comb.right, comb.left>> \in Range(Before.inner)
    /\ result.data = FALSE
    /\ join_keys = Before

\* insert of an absent pair into a set of two keys appends it.
C39_WitnessAppend ==
    /\ LastCall({"insert", "insert_owned"})
    /\ Len(Before.inner) = 2
    /\ result.data = TRUE
    /\ join_keys.inner = Append(Before.inner, <<comb.left, comb.right>>)

\* insert_intersection into a set of one key, s1 of two keys of which s2
\* holds one flipped: that key is appended as s1 has it.
C39_WitnessIntersection ==
    /\ LastCall({"insert_intersection"})
    /\ Len(Before.inner) = 1
    /\ Len(comb.s1.inner) = 2
    /\ Len(Appended) = 1
    /\ Appended[1] \in Range(comb.s1.inner)
    /\ Appended[1] \notin Range(comb.s2.inner)
    /\ Flipped(Appended[1]) \in Range(comb.s2.inner)

\* insert_intersection with a pair common to s1 and s2 that the set already
\* holds flipped: nothing is appended.
C39_WitnessIntersectionHeld ==
    /\ LastCall({"insert_intersection"})
    /\ \E pair \in Range(comb.s1.inner) :
          /\ Holds(comb.s2, pair)
          /\ Flipped(pair) \in Range(Before.inner)
          /\ pair \notin Range(Before.inner)
    /\ join_keys = Before

\* insert_all of two flipped pairs returns true and appends the first only.
C39_WitnessInsertAll ==
    /\ LastCall({"insert_all", "insert_all_owned"})
    /\ Len(comb.iter) = 2
    /\ comb.iter[1] # comb.iter[2]
    /\ comb.iter[2] = Flipped(comb.iter[1])
    /\ result.data = TRUE
    /\ join_keys.inner = Append(Before.inner, comb.iter[1])

====
